---- MODULE Spec2Model ----
(***************************************************************************)
(* Window animation engine of shell/platform/windows: the per-window       *)
(* animation controller (WindowApi) driven by WM_TIMER ticks.              *)
(*                                                                         *)
(* Numbers.  The code computes in double; the model computes the same      *)
(* expressions in exact rational arithmetic:                               *)
(*   - logical coordinates are integers counted in 1/LogDen of a logical   *)
(*     pixel (LogDen is divisible by every dpi/96 denominator used);       *)
(*     coordinates stay small so that every product fits TLC's integers;   *)
(*   - opacities are integers counted in 1/OpDen (OpDen = 2 * 255, so      *)
(*     alpha/255 and the halves are exact);                                *)
(*   - progress and eased progress are fractions <<num, den>>, den > 0;    *)
(*   - spring damping is counted in tenths, stiffness in units.            *)
(* static_cast<int>(double) is truncation toward zero (Trunc).             *)
(***************************************************************************)
EXTENDS Integers, Sequences, FiniteSets, TLC

\* ---------------------------------------------------------------- bounds
MaxStarts == 3      \* StartAnimation calls of the callers under Spec
MaxStartsWide == 2  \* StartAnimation calls of the callers under SpecWide
MaxStartsLive == 2  \* StartAnimation calls of the callers under SpecLive
MaxStartsSpring == 2 \* StartAnimation calls of the callers under SpecSpring
MaxStartsEnv == 2   \* StartAnimation calls of the callers under SpecEnv
MaxTime == 3        \* last value of the performance counter, in ms
MaxStartsLinear == 2 \* StartPositionAnimation calls under SpecLinear
MaxJumps == 8       \* readings of the performance counter under SpecLinear
MaxApiCalls == 3    \* calls of the immediate operations under SpecDrag
MaxStartsDrag == 1  \* StartAnimation calls under SpecDrag
MaxJumpCalls == 2   \* calls of the immediate operations under SpecJump
MaxStartsRound == 2 \* StartAnimation calls under SpecRound
MaxStartsFade == 2  \* StartAnimation calls under SpecFade
MaxTicks == 2       \* timer callbacks under SpecTimer
MaxCalls == 3       \* calls into the scheduler under SpecTimer
MaxTicksSeq == 3    \* timer callbacks under SpecTick
MaxCallsSeq == 2    \* calls into the scheduler under SpecTick
MaxInits == 3       \* Initialize calls under SpecInit
MaxCallsInit == 2   \* registration calls under SpecInit
MaxTicksInit == 2   \* timer callbacks under SpecInit
MaxClockMs == 32    \* last reading of the scheduler's clock under SpecInit

\* ------------------------------------------------------ program constants
TimerIdBase == 1000
DefaultDamping == 7
DefaultStiffness == 100
USER_DEFAULT_SCREEN_DPI == 96
SW_HIDE == 0
SW_SHOWNOACTIVATE == 4
SW_SHOW == 5
NoCmd == -1
kAnimationTimerInterval == 16
kMinDamping == 1
kMaxDamping == 20
kMinStiffness == 10
kMaxStiffness == 500
kMaxDeltaMs == 100
kDefaultDeltaMs == 16

LogDen == 2 * 3
OpDen == 2 * 255

\* ------------------------------------------------------------ enumerations
AnimationPropertyType == {"kPosition", "kSize", "kBounds", "kOpacity"}

AnimationEasingType ==
  {"kLinear", "kEaseIn", "kEaseOut", "kEaseInOut", "kSpringBounce", "kOvershoot"}

IdRange == TimerIdBase .. (TimerIdBase + MaxStarts)

\* ------------------------------------------------------------ arithmetic
\* static_cast<int>(n / d) for d > 0
Trunc(n, d) == IF n >= 0 THEN n \div d ELSE -((-n) \div d)

Max(a, b) == IF a < b THEN b ELSE a
Min(a, b) == IF b < a THEN b ELSE a

RECURSIVE GCD(_, _)
GCD(a, b) == IF b = 0 THEN a ELSE GCD(b, a % b)

ZeroRect == [left |-> 0, top |-> 0, right |-> 0, bottom |-> 0]

\* --------------------------------------------------------------- requests
\* std::function<void()> on_complete: empty, or user code that runs one of
\* the public operations of the same WindowApi.
NullCallback == [op |-> "null", id |-> 0, property |-> "kPosition"]
NoopCallback == [op |-> "noop", id |-> 0, property |-> "kPosition"]
StopCallback(k) == [op |-> "stop", id |-> k, property |-> "kPosition"]
StopAllCallback == [op |-> "stopAll", id |-> 0, property |-> "kPosition"]
StartCallback(p) == [op |-> "start", id |-> 0, property |-> p]

\* struct AnimationRequest with its default member initialisers
AnimationRequest ==
  [property |-> "kPosition", easing |-> "kSpringBounce",
   target_x |-> 0, target_y |-> 0, target_width |-> 0, target_height |-> 0,
   target_opacity |-> OpDen, duration |-> 300,
   use_custom_spring |-> FALSE, spring_damping |-> DefaultDamping,
   spring_stiffness |-> DefaultStiffness, on_complete |-> NullCallback]

\* struct WindowAnimation with its default member initialisers
WindowAnimation ==
  [timer_id |-> 0, hwnd |-> FALSE, property |-> "kPosition",
   easing |-> "kSpringBounce",
   start_x |-> 0, start_y |-> 0, start_width |-> 0, start_height |-> 0,
   start_opacity |-> OpDen,
   target_x |-> 0, target_y |-> 0, target_width |-> 0, target_height |-> 0,
   target_opacity |-> OpDen,
   start_time_qpc |-> 0, duration |-> 300, progress |-> <<0, 1>>,
   scale_factor |-> USER_DEFAULT_SCREEN_DPI,
   shadow_left |-> 0, shadow_right |-> 0, shadow_top |-> 0, shadow_bottom |-> 0,
   spring_damping |-> DefaultDamping, spring_stiffness |-> DefaultStiffness,
   on_complete |-> NullCallback, is_active |-> FALSE]

VARIABLES
  window_,             \* HostWindow* window_ is non-null
  hwnd,                \* window_->GetWindowHandle() is non-null
  active_animations_,  \* std::unordered_map<UINT_PTR, WindowAnimation>
  next_timer_id_,
  spring_damping_,
  spring_stiffness_,
  timers,              \* identifiers armed by SetTimer and not yet killed
  now,                 \* QueryPerformanceCounter, in ms
  dpi,                 \* GetDpiForHWND
  shadow,              \* drop-shadow inset of the window (left, right, bottom)
  rect,                \* GetWindowRect: raw window rectangle, physical
  layered,             \* WS_EX_LAYERED
  alpha,               \* layered-window alpha, -1 before the first LWA_ALPHA
  last_call,           \* the last placement call issued
  fired,               \* per identifier: invocations of on_complete
  removed,             \* identifiers erased while their record was active
  returned,            \* results of the successful StartAnimation calls
  cb_view,             \* what the last on_complete invocation could observe
  dangling_read,       \* OnTimer read a record after it was erased
  crashed,             \* OnTimer erased an already erased iterator
  last_op,             \* the last operation, with its result (for the void
                       \* operations: the number of records it erased)
  \* WindowApiTimer, the shared tick scheduler
  windowApis_,         \* std::set<std::shared_ptr<WindowApi>>
  windowApis_cache_,   \* std::vector<std::shared_ptr<WindowApi>>
  windowApis_dirty_,   \* std::atomic<bool>
  windowApis_mutex_,   \* the thread that holds the mutex, or "free"
  timer_running_,
  initialized_,
  last_tick_time_ms_,
  clock_ms,            \* QueryPerformanceCounter as the scheduler reads it
  caller,              \* per calling thread: the call it is in and where
  tick,                \* the timer thread: where OnTick is, its delta, and
                       \* what this tick rebuilt and delivered
  published,           \* the registry as the last returned call left it
  dirty_by,            \* who stored the present value of windowApis_dirty_
  calls_made,          \* calls into the scheduler so far
  engine_,             \* FlutterWindowsEngine*
  timer_queue_,        \* the timer queue handle is non-null
  timer_,              \* the timer handle is non-null
  timers_created,      \* successful CreateTimerQueueTimer calls
  init_calls,          \* Initialize calls so far
  init_result,         \* how the last Initialize call went
  \* the WindowApi's drag session and the other public operations
  is_dragging_,
  drag_start_cursor_pos_,
  drag_start_window_pos_,
  cursor,              \* GetCursorPos
  show_cmd,            \* the nCmd of the last ShowWindow call on the window
  next_frame_callback, \* the nCmd held by the engine's next-frame callback
  null_deref,          \* an operation dereferenced the null window_
  last_arg,            \* the argument of the last public operation
  api_calls            \* public operations called so far

vars == <<window_, hwnd, active_animations_, next_timer_id_, spring_damping_,
          spring_stiffness_, timers, now, dpi, shadow, rect, layered, alpha,
          last_call, fired, removed, returned, cb_view, dangling_read,
          crashed, last_op, windowApis_, windowApis_cache_,
          windowApis_dirty_, windowApis_mutex_, timer_running_, initialized_,
          last_tick_time_ms_, clock_ms, caller, tick, published, dirty_by,
          calls_made, engine_, timer_queue_, timer_, timers_created,
          init_calls, init_result, is_dragging_, drag_start_cursor_pos_,
          drag_start_window_pos_, cursor, show_cmd, next_frame_callback,
          null_deref, last_arg, api_calls>>

\* The scheduler's part of the state.
timer_vars == <<windowApis_, windowApis_cache_, windowApis_dirty_,
                windowApis_mutex_, timer_running_, initialized_,
                last_tick_time_ms_, clock_ms, caller, tick, published,
                dirty_by, calls_made, engine_, timer_queue_, timer_,
                timers_created, init_calls, init_result>>

\* What Initialize sets up besides the flags.
init_vars == <<engine_, timer_queue_, timer_, timers_created, init_calls,
               init_result>>

\* The drag session, the pending show command and the record of the public
\* operations.
api_vars == <<is_dragging_, drag_start_cursor_pos_, drag_start_window_pos_,
              cursor, show_cmd, next_frame_callback, null_deref, last_arg,
              api_calls>>

\* The WindowApi object and the window it drives, as one value.
Cur ==
  [window_ |-> window_, hwnd |-> hwnd, anims |-> active_animations_,
   next |-> next_timer_id_, damping |-> spring_damping_,
   stiffness |-> spring_stiffness_, timers |-> timers, dpi |-> dpi,
   shadow |-> shadow, rect |-> rect, layered |-> layered, alpha |-> alpha,
   call |-> last_call, fired |-> fired, removed |-> removed,
   returned |-> returned, view |-> cb_view]

NoCall == [fn |-> "none", x |-> 0, y |-> 0, w |-> 0, h |-> 0, flags |-> {}]
NoView == [id |-> 0, present |-> FALSE, is_active |-> FALSE, armed |-> FALSE,
           progress |-> <<0, 1>>, call |-> NoCall]

\* ------------------------------------------------------------ OS services
\* SetWindowPos(hwnd, nullptr, x, y, cx, cy, flags)
SetWindowPos(S, x, y, cx, cy, flags) ==
  LET l == IF "SWP_NOMOVE" \in flags THEN S.rect.left ELSE x
      t == IF "SWP_NOMOVE" \in flags THEN S.rect.top ELSE y
      w == IF "SWP_NOSIZE" \in flags THEN S.rect.right - S.rect.left ELSE cx
      h == IF "SWP_NOSIZE" \in flags THEN S.rect.bottom - S.rect.top ELSE cy
  IN [S EXCEPT !.rect = [left |-> l, top |-> t, right |-> l + w, bottom |-> t + h],
               !.call = [fn |-> "SetWindowPos", x |-> x, y |-> y, w |-> cx,
                         h |-> cy, flags |-> flags]]

\* SetLayeredWindowAttributes(hwnd, 0, a, LWA_ALPHA)
SetLayeredWindowAttributes(S, a) ==
  [S EXCEPT !.alpha = a,
            !.call = [fn |-> "SetLayeredWindowAttributes", x |-> a, y |-> 0,
                      w |-> 0, h |-> 0, flags |-> {"LWA_ALPHA"}]]

\* DwmGetWindowAttribute(DWMWA_EXTENDED_FRAME_BOUNDS): the visible frame
FrameBounds(S) ==
  [left |-> S.rect.left + S.shadow, top |-> S.rect.top,
   right |-> S.rect.right - S.shadow, bottom |-> S.rect.bottom - S.shadow]

\* a KillTimer call that leaves the timer armed
KillTimerSkipped(S, id) == S

KillTimer(S, id) == [S EXCEPT !.timers = @ \ {id}]
SetTimer(S, id) == [S EXCEPT !.timers = @ \cup {id}]

Erase(anims, id) == [k \in (DOMAIN anims) \ {id} |-> anims[k]]

\* ------------------------------------------------------------------ easing
SpringDen == 1000 * 1000

\* Arguments <<num, den, damping, stiffness>> for which the oscillator
\* formula yields NaN (omega = 0 gives 0/0).
SpringNaN ==
  {<<1, 2, 1, 0>>, <<1, 3, 1, 0>>, <<2, 3, 1, 0>>, <<1, 4, 1, 0>>,
   <<2, 4, 1, 0>>, <<3, 4, 1, 0>>, <<1, 2, 7, 0>>, <<1, 3, 7, 0>>,
   <<2, 3, 7, 0>>, <<1, 4, 7, 0>>, <<2, 4, 7, 0>>, <<3, 4, 7, 0>>,
   <<1, 2, 20, 0>>, <<1, 3, 20, 0>>, <<2, 3, 20, 0>>, <<1, 4, 20, 0>>,
   <<2, 4, 20, 0>>, <<3, 4, 20, 0>>, <<1, 2, 30, 0>>, <<1, 3, 30, 0>>,
   <<2, 3, 30, 0>>, <<1, 4, 30, 0>>, <<2, 4, 30, 0>>, <<3, 4, 30, 0>>}

SpringTable ==
  <<1, 2, 1, 10>> :> 916258 @@ <<1, 3, 1, 10>> :> 472874 @@ <<2, 3, 1, 10>> :> 1336855 @@
  <<1, 4, 1, 10>> :> 281688 @@ <<2, 4, 1, 10>> :> 916258 @@ <<3, 4, 1, 10>> :> 1503966 @@
  <<1, 2, 1, 100>> :> 901449 @@ <<1, 3, 1, 100>> :> 1718123 @@ <<2, 3, 1, 100>> :> 500024 @@
  <<1, 4, 1, 100>> :> 1570415 @@ <<2, 4, 1, 100>> :> 901449 @@ <<3, 4, 1, 100>> :> 775842 @@
  <<1, 2, 1, 500>> :> 990618 @@ <<1, 3, 1, 500>> :> 755618 @@ <<2, 3, 1, 500>> :> 1126881 @@
  <<1, 4, 1, 500>> :> 608466 @@ <<2, 4, 1, 500>> :> 990618 @@ <<3, 4, 1, 500>> :> 1119942 @@
  <<1, 2, 7, 10>> :> 565712 @@ <<1, 3, 7, 10>> :> 330650 @@ <<2, 3, 7, 10>> :> 761485 @@
  <<1, 4, 7, 10>> :> 212675 @@ <<2, 4, 7, 10>> :> 565712 @@ <<3, 4, 7, 10>> :> 838382 @@
  <<1, 2, 7, 100>> :> 1039774 @@ <<1, 3, 7, 100>> :> 1004654 @@ <<2, 3, 7, 100>> :> 1008749 @@
  <<1, 4, 7, 100>> :> 870572 @@ <<2, 4, 7, 100>> :> 1039774 @@ <<3, 4, 7, 100>> :> 1000965 @@
  <<1, 2, 7, 500>> :> 999663 @@ <<1, 3, 7, 500>> :> 1001245 @@ <<2, 3, 7, 500>> :> 1000037 @@
  <<1, 4, 7, 500>> :> 1027895 @@ <<2, 4, 7, 500>> :> 999663 @@ <<3, 4, 7, 500>> :> 999997 @@
  <<1, 2, 10, 0>> :> 0 @@ <<1, 3, 10, 0>> :> 0 @@ <<2, 3, 10, 0>> :> 0 @@
  <<1, 4, 10, 0>> :> 0 @@ <<2, 4, 10, 0>> :> 0 @@ <<3, 4, 10, 0>> :> 0 @@
  <<1, 2, 10, 10>> :> 468954 @@ <<1, 3, 10, 10>> :> 284131 @@ <<2, 3, 10, 10>> :> 622485 @@
  <<1, 4, 10, 10>> :> 187821 @@ <<2, 4, 10, 10>> :> 468954 @@ <<3, 4, 10, 10>> :> 685348 @@
  <<1, 2, 10, 100>> :> 959572 @@ <<1, 3, 10, 100>> :> 845412 @@ <<2, 3, 10, 100>> :> 990243 @@
  <<1, 4, 10, 100>> :> 712702 @@ <<2, 4, 10, 100>> :> 959572 @@ <<3, 4, 10, 100>> :> 995298 @@
  <<1, 2, 10, 500>> :> 999830 @@ <<1, 3, 10, 500>> :> 995102 @@ <<2, 3, 10, 500>> :> 999994 @@
  <<1, 4, 10, 500>> :> 975389 @@ <<2, 4, 10, 500>> :> 999830 @@ <<3, 4, 10, 500>> :> 999999 @@
  <<1, 2, 20, 10>> :> 294931 @@ <<1, 3, 20, 10>> :> 189256 @@ <<2, 3, 20, 10>> :> 387637 @@
  <<1, 4, 20, 10>> :> 132362 @@ <<2, 4, 20, 10>> :> 294931 @@ <<3, 4, 20, 10>> :> 429368 @@
  <<1, 2, 20, 100>> :> 717828 @@ <<1, 3, 20, 100>> :> 558977 @@ <<2, 3, 20, 100>> :> 819463 @@
  <<1, 4, 20, 100>> :> 448647 @@ <<2, 4, 20, 100>> :> 717828 @@ <<3, 4, 20, 100>> :> 855592 @@
  <<1, 2, 20, 500>> :> 946134 @@ <<1, 3, 20, 500>> :> 853784 @@ <<2, 3, 20, 500>> :> 980155 @@
  <<1, 4, 20, 500>> :> 759100 @@ <<2, 4, 20, 500>> :> 946134 @@ <<3, 4, 20, 500>> :> 987955 @@
  <<1, 2, 30, 10>> :> 214476 @@ <<1, 3, 30, 10>> :> 140195 @@ <<2, 3, 30, 10>> :> 282389 @@
  <<1, 4, 30, 10>> :> 100662 @@ <<2, 4, 30, 10>> :> 214476 @@ <<3, 4, 30, 10>> :> 314112 @@
  <<1, 2, 30, 100>> :> 563071 @@ <<1, 3, 30, 100>> :> 418433 @@ <<2, 3, 30, 100>> :> 671736 @@
  <<1, 4, 30, 100>> :> 329044 @@ <<2, 4, 30, 100>> :> 563071 @@ <<3, 4, 30, 100>> :> 715470 @@
  <<1, 2, 30, 500>> :> 848680 @@ <<1, 3, 30, 500>> :> 713194 @@ <<2, 3, 30, 500>> :> 920163 @@
  <<1, 4, 30, 500>> :> 605147 @@ <<2, 4, 30, 500>> :> 848680 @@ <<3, 4, 30, 500>> :> 942010

\* a spring that returns the oscillator's value as it is, unclamped
CalculateSpringBounceUnclamped(p, damping, stiffness) ==
  IF p[1] >= p[2] THEN <<1, 1>>
  ELSE IF p[1] <= 0 THEN <<0, 1>>
  ELSE LET key == <<p[1], p[2], damping, stiffness>>
       IN IF key \in SpringNaN THEN <<SpringDen, SpringDen>>
          ELSE <<SpringTable[key], SpringDen>>

\* double CalculateSpringBounce(t, damping, stiffness), t = p[1] / p[2].
\* SpringTable holds the formula's value, truncated to 1/SpringDen, on the
\* grid of arguments the model uses.  (std::min)(1.0, NaN) is 1.0.
CalculateSpringBounce(p, damping, stiffness) ==
  IF p[1] >= p[2] THEN <<1, 1>>
  ELSE IF p[1] <= 0 THEN <<0, 1>>
  ELSE LET key == <<p[1], p[2], damping, stiffness>>
       IN IF key \in SpringNaN
            THEN <<Max(0, Min(SpringDen, SpringDen)), SpringDen>>
            ELSE <<Max(0, Min(SpringDen, SpringTable[key])), SpringDen>>

\* an easing whose linear curve is the ease-in curve
CalculateEasingBent(S, p, easing) ==
  LET n == IF p[1] < 0 THEN 0 ELSE IF p[1] > p[2] THEN p[2] ELSE p[1]
  IN <<n * n, p[2] * p[2]>>

\* double CalculateEasing(t, easing): reads the window's current spring
\* parameters, not the record's.
CalculateEasing(S, p, easing) ==
  LET n == IF p[1] < 0 THEN 0 ELSE IF p[1] > p[2] THEN p[2] ELSE p[1]
      d == p[2]
  IN CASE easing = "kLinear" -> <<n, d>>
       [] easing = "kEaseIn" -> <<n * n, d * d>>
       [] easing = "kEaseOut" -> <<d * d - (d - n) * (d - n), d * d>>
       [] easing = "kEaseInOut" ->
            IF 2 * n < d THEN <<2 * n * n, d * d>>
            ELSE <<d * d - 2 * (d - n) * (d - n), d * d>>
       [] easing = "kSpringBounce" ->
            CalculateSpringBounce(<<n, d>>, S.damping, S.stiffness)
       [] easing = "kOvershoot" ->
            LET c1 == 170158
                c3 == c1 + 100000
                m == n - d
            IN <<100000 * d * d * d + c3 * m * m * m + c1 * m * m * d,
                 100000 * d * d * d>>
       [] OTHER -> <<n, d>>

\* ------------------------------------------------------------------ frames
\* static_cast<int>((start + (target - start) * eased) * scale_factor) with
\* start and target in 1/LogDen and scale_factor = sf / 96
Physical(start, target, ep, sf) ==
  LET g == GCD(sf, USER_DEFAULT_SCREEN_DPI)
  IN Trunc((start * ep[2] + (target - start) * ep[1]) * (sf \div g),
           LogDen * ep[2] * (USER_DEFAULT_SCREEN_DPI \div g))

\* a conversion to BYTE without the clamp: the value modulo 256
AlphaByteWrapped(num, den) == Trunc(num, (OpDen \div 255) * den) % 256

\* static_cast<BYTE>(clamp(opacity, 0, 1) * 255), opacity = num / (OpDen * den)
AlphaByte(num, den) ==
  Trunc(Max(0, Min(OpDen * den, num)), (OpDen \div 255) * den)

\* a frame scaled by the window's present DPI
FrameScaleOfWindow(S, anim) == S.dpi

\* const double scale_factor = anim.scale_factor
FrameScale(S, anim) == anim.scale_factor

\* void ApplyAnimationFrame(WindowAnimation& anim, double eased_progress)
ApplyAnimationFrame(S, anim, ep) ==
  IF ~anim.hwnd THEN S
  ELSE LET sf == FrameScale(S, anim)
           px == Physical(anim.start_x, anim.target_x, ep, sf) - anim.shadow_left
           py == Physical(anim.start_y, anim.target_y, ep, sf) - anim.shadow_top
           pw == Physical(anim.start_width, anim.target_width, ep, sf)
                   + (anim.shadow_left + anim.shadow_right)
           ph == Physical(anim.start_height, anim.target_height, ep, sf)
                   + (anim.shadow_top + anim.shadow_bottom)
       IN CASE anim.property = "kPosition" ->
                 SetWindowPos(S, px, py, 0, 0, {"SWP_NOSIZE"})
            [] anim.property = "kSize" ->
                 SetWindowPos(S, 0, 0, pw, ph, {"SWP_NOMOVE"})
            [] anim.property = "kBounds" ->
                 SetWindowPos(S, px, py, pw, ph, {})
            [] anim.property = "kOpacity" ->
                 SetLayeredWindowAttributes(S,
                   AlphaByte(anim.start_opacity * ep[2]
                               + (anim.target_opacity - anim.start_opacity) * ep[1],
                             ep[2]))

\* -------------------------------------------------------------- operations
\* StopAnimation that kills the timer and leaves the record in the map
StopAnimationKeepsRecord(S, timer_id) ==
  IF timer_id \in DOMAIN S.anims
    THEN [KillTimer(S, timer_id) EXCEPT
            !.removed = IF S.anims[timer_id].is_active
                          THEN @ \cup {timer_id} ELSE @]
    ELSE S

\* StopAnimation that erases the record and leaves its timer armed
StopAnimationLeaksTimer(S, timer_id) ==
  IF timer_id \in DOMAIN S.anims
    THEN [S EXCEPT !.anims = Erase(S.anims, timer_id),
                   !.removed = IF S.anims[timer_id].is_active
                                 THEN @ \cup {timer_id} ELSE @]
    ELSE S

\* void StopAnimation(UINT_PTR timer_id)
StopAnimation(S, timer_id) ==
  IF timer_id \in DOMAIN S.anims
    THEN LET anim == S.anims[timer_id]
             K == IF anim.hwnd THEN KillTimer(S, timer_id) ELSE S
         IN [K EXCEPT !.anims = Erase(S.anims, timer_id),
                      !.removed = IF anim.is_active THEN @ \cup {timer_id} ELSE @]
    ELSE S

\* a conflict switch that only matches the same property
ConflictsSameOnly(new_property, property) == new_property = property

\* the switch of StopConflictingAnimations
Conflicts(new_property, property) ==
  CASE new_property = "kPosition" -> property \in {"kPosition", "kBounds"}
    [] new_property = "kSize" -> property \in {"kSize", "kBounds"}
    [] new_property = "kBounds" -> property \in {"kPosition", "kSize", "kBounds"}
    [] new_property = "kOpacity" -> property = "kOpacity"
    [] OTHER -> FALSE

\* for (UINT_PTR timer_id : to_stop) StopAnimation(timer_id)
RECURSIVE StopEach(_, _)
StopEach(S, to_stop) ==
  IF to_stop = {} THEN S
  ELSE LET timer_id == CHOOSE k \in to_stop : \A j \in to_stop : k <= j
       IN StopEach(StopAnimation(S, timer_id), to_stop \ {timer_id})

\* StopConflictingAnimations that stops every active animation
StopConflictingAnimationsAll(S, new_property) ==
  StopEach(S, {k \in DOMAIN S.anims : S.anims[k].is_active})

\* void StopConflictingAnimations(AnimationPropertyType new_property)
StopConflictingAnimations(S, new_property) ==
  LET to_stop == {k \in DOMAIN S.anims :
                    /\ S.anims[k].is_active
                    /\ Conflicts(new_property, S.anims[k].property)}
  IN StopEach(S, to_stop)

\* if (!window_) return; hwnd = window_->GetWindowHandle(); if (!hwnd) return;
WindowHandleUnchecked(S) == S.window_

WindowHandle(S) == IF ~S.window_ THEN FALSE ELSE S.hwnd

\* StopAllAnimations that clears the records and leaves their timers armed
StopAllAnimationsLeaksTimers(S) ==
  IF ~WindowHandle(S) THEN S
  ELSE [S EXCEPT !.anims = [k \in {} |-> WindowAnimation],
                 !.removed = @ \cup {k \in DOMAIN S.anims : S.anims[k].is_active}]

\* void StopAllAnimations()
StopAllAnimations(S) ==
  IF ~WindowHandle(S) THEN S
  ELSE [S EXCEPT !.timers = @ \ DOMAIN S.anims,
                 !.anims = [k \in {} |-> WindowAnimation],
                 !.removed = @ \cup {k \in DOMAIN S.anims : S.anims[k].is_active}]

\* HasActiveAnimation with the test of is_active negated
HasActiveAnimationNegated(S) == \E k \in DOMAIN S.anims : ~S.anims[k].is_active

\* bool HasActiveAnimation()
HasActiveAnimation(S) == \E k \in DOMAIN S.anims : S.anims[k].is_active

\* SetSpringParameters that stores its arguments as given
SetSpringParametersUnclamped(S, damping, stiffness) ==
  [S EXCEPT !.damping = damping, !.stiffness = stiffness]

\* void SetSpringParameters(double damping, double stiffness), damping in tenths
SetSpringParameters(S, damping, stiffness) ==
  [S EXCEPT !.damping = Max(kMinDamping, Min(kMaxDamping, damping)),
            !.stiffness = Max(kMinStiffness, Min(kMaxStiffness, stiffness))]

\* a conversion that takes physical pixels for logical ones
ToLogicalUnscaled(v, sf) == v * LogDen

\* static_cast<double>(v) / scale_factor, in 1/LogDen (exact for the model's dpi)
ToLogical(v, sf) == (v * USER_DEFAULT_SCREEN_DPI * LogDen) \div sf

\* anim.timer_id = next_timer_id_++: the value next_timer_id_ is left with
NextTimerIdReused(S) == S.next

NextTimerId(S) == S.next + 1

\* UINT_PTR StartAnimation(const AnimationRequest& request), at clock t.
\* q is what the platform queries answer: dwm_ok (DwmGetWindowAttribute
\* succeeded), rect_ok (GetWindowRect succeeded), garbage (the content of the
\* uninitialised frame_rect when the frame query failed).
StartAnimation(S, request, q, t) ==
  IF ~WindowHandle(S) THEN [S |-> S, ret |-> 0]
  ELSE
    LET S1 == StopConflictingAnimations(S, request.property)
        S2 == IF request.use_custom_spring
                THEN [S1 EXCEPT !.damping = request.spring_damping,
                                !.stiffness = request.spring_stiffness]
                ELSE S1
        scale_factor == S2.dpi
        both == q.dwm_ok /\ q.rect_ok
        frame_rect == IF q.dwm_ok THEN FrameBounds(S2) ELSE q.garbage
        window_rect == S2.rect
        base == [WindowAnimation EXCEPT
                   !.timer_id = S2.next,
                   !.hwnd = S2.hwnd,
                   !.property = request.property,
                   !.easing = request.easing,
                   !.duration = request.duration,
                   !.spring_damping = S2.damping,
                   !.spring_stiffness = S2.stiffness,
                   !.on_complete = request.on_complete,
                   !.is_active = TRUE,
                   !.scale_factor = scale_factor,
                   !.shadow_left = IF both THEN frame_rect.left - window_rect.left ELSE 0,
                   !.shadow_right = IF both THEN window_rect.right - frame_rect.right ELSE 0,
                   !.shadow_top = IF both THEN frame_rect.top - window_rect.top ELSE 0,
                   !.shadow_bottom = IF both THEN window_rect.bottom - frame_rect.bottom ELSE 0,
                   !.start_time_qpc = t]
        S3 == [S2 EXCEPT !.next = NextTimerId(S2)]
        nonzero == frame_rect.left # 0 \/ frame_rect.top # 0
                     \/ frame_rect.right # 0 \/ frame_rect.bottom # 0
        wide == frame_rect.right - frame_rect.left > 0
        fromFrame(a) ==
          [a EXCEPT !.start_x = ToLogical(frame_rect.left, scale_factor),
                    !.start_y = ToLogical(frame_rect.top, scale_factor)]
        fromRect(a) ==
          [a EXCEPT !.start_x = ToLogical(window_rect.left, scale_factor),
                    !.start_y = ToLogical(window_rect.top, scale_factor)]
        sizeFromFrame(a) ==
          [a EXCEPT !.start_width =
                      ToLogical(frame_rect.right - frame_rect.left, scale_factor),
                    !.start_height =
                      ToLogical(frame_rect.bottom - frame_rect.top, scale_factor)]
        sizeFromRect(a) ==
          [a EXCEPT !.start_width =
                      ToLogical(window_rect.right - window_rect.left, scale_factor),
                    !.start_height =
                      ToLogical(window_rect.bottom - window_rect.top, scale_factor)]
        anim ==
          CASE request.property = "kPosition" ->
                 [(IF nonzero THEN fromFrame(base)
                   ELSE IF q.rect_ok THEN fromRect(base) ELSE base)
                  EXCEPT !.target_x = request.target_x,
                         !.target_y = request.target_y]
            [] request.property = "kSize" ->
                 [(IF wide THEN sizeFromFrame(base)
                   ELSE IF q.rect_ok THEN sizeFromRect(base) ELSE base)
                  EXCEPT !.target_width = request.target_width,
                         !.target_height = request.target_height]
            [] request.property = "kBounds" ->
                 [(IF wide THEN sizeFromFrame(fromFrame(base))
                   ELSE IF q.rect_ok THEN sizeFromRect(fromRect(base)) ELSE base)
                  EXCEPT !.target_x = request.target_x,
                         !.target_y = request.target_y,
                         !.target_width = request.target_width,
                         !.target_height = request.target_height]
            [] request.property = "kOpacity" ->
                 [base EXCEPT
                    !.start_opacity =
                      IF S3.layered /\ S3.alpha >= 0
                        THEN S3.alpha * (OpDen \div 255) ELSE OpDen,
                    !.target_opacity = request.target_opacity]
        S4 == IF request.property = "kOpacity"
                THEN [S3 EXCEPT !.layered = TRUE] ELSE S3
        S5 == [S4 EXCEPT
                 !.anims = [k \in DOMAIN S4.anims \cup {anim.timer_id} |->
                              IF k = anim.timer_id THEN anim ELSE S4.anims[k]],
                 !.returned = Append(@, anim.timer_id)]
    IN [S |-> SetTimer(S5, anim.timer_id), ret |-> anim.timer_id]

\* The queries of a StartAnimation issued from inside a completion callback.
QueriesOk == [dwm_ok |-> TRUE, rect_ok |-> TRUE, garbage |-> ZeroRect]

\* The request a "start" callback issues.
CallbackRequest(p) ==
  [AnimationRequest EXCEPT !.property = p, !.easing = "kLinear",
     !.target_x = LogDen, !.target_y = LogDen,
     !.target_width = 2 * LogDen, !.target_height = 2 * LogDen,
     !.target_opacity = 0, !.duration = 2]

\* a completion that invokes an observing callback twice
RunCallbackTwice(S, id, t) ==
  [S EXCEPT !.fired[id] = @ + 2,
            !.view = [id |-> id, present |-> id \in DOMAIN S.anims,
                      is_active |-> S.anims[id].is_active,
                      armed |-> id \in S.timers,
                      progress |-> S.anims[id].progress,
                      call |-> S.call]]

\* anim.on_complete(): the user's code runs while OnTimer still holds the
\* record's iterator.
RunCallback(S, id, t) ==
  LET cb == S.anims[id].on_complete
      V == [S EXCEPT !.fired[id] = @ + 1,
                     !.view = [id |-> id, present |-> id \in DOMAIN S.anims,
                               is_active |-> S.anims[id].is_active,
                               armed |-> id \in S.timers,
                               progress |-> S.anims[id].progress,
                               call |-> S.call]]
  IN CASE cb.op = "stop" -> StopAnimation(V, cb.id)
       [] cb.op = "stopAll" -> StopAllAnimations(V)
       [] cb.op = "start" -> StartAnimation(V, CallbackRequest(cb.property), QueriesOk, t).S
       [] OTHER -> V

\* a completion test that never succeeds
CompletedNever(elapsed, duration) == FALSE

\* if (elapsed >= anim.duration)
Completed(elapsed, duration) == elapsed >= duration

\* an update that advances the progress of every record of the registry
UpdateAnimationOfAll(S, id, t) ==
  [S EXCEPT !.anims =
     [k \in DOMAIN S.anims |->
        [S.anims[k] EXCEPT !.progress = <<t - S.anims[k].start_time_qpc,
                                          S.anims[k].duration>>]]]

\* void UpdateAnimation(WindowAnimation& anim), anim = active_animations_[id]
UpdateAnimation(S, id, t) ==
  LET anim == S.anims[id]
      elapsed == t - anim.start_time_qpc
  IN IF ~anim.is_active \/ ~anim.hwnd THEN S
     ELSE IF Completed(elapsed, anim.duration)
       THEN LET S1 == [S EXCEPT !.anims[id].progress = <<1, 1>>]
                S2 == ApplyAnimationFrame(S1, S1.anims[id], <<1, 1>>)
                S3 == [S2 EXCEPT !.anims[id].is_active = FALSE]
                S4 == KillTimer(S3, id)
            IN IF anim.on_complete.op # "null"
                 THEN CHOOSE R \in {RunCallback(S5, id, t) : S5 \in {S4}} : TRUE
                 ELSE S4
       ELSE LET S1 == [S EXCEPT !.anims[id].progress = <<elapsed, anim.duration>>]
                eased_progress ==
                  CalculateEasing(S1, S1.anims[id].progress, anim.easing)
            IN ApplyAnimationFrame(S1, S1.anims[id], eased_progress)

\* OnTimer that reports every WM_TIMER as handled
OnTimerAlwaysHandled(S, timer_id, t) ==
  [S |-> IF timer_id \in DOMAIN S.anims
           THEN [S EXCEPT !.anims = Erase(S.anims, timer_id)] ELSE S,
   ret |-> TRUE, dangling |-> FALSE]

\* OnTimer without the erase that follows UpdateAnimation
OnTimerKeepsCompleted(S, timer_id, t) ==
  IF timer_id \notin DOMAIN S.anims
    THEN [S |-> S, ret |-> FALSE, dangling |-> FALSE]
  ELSE IF ~S.anims[timer_id].is_active
    THEN [S |-> [S EXCEPT !.anims = Erase(S.anims, timer_id)],
          ret |-> TRUE, dangling |-> FALSE]
  ELSE [S |-> UpdateAnimation(S, timer_id, t), ret |-> TRUE, dangling |-> FALSE]

\* bool OnTimer(WPARAM wParam, LPARAM lParam), timer_id = wParam, at clock t.
\* When the completion callback erased the record, `anim` and `it` dangle
\* (dangling): line 942 then reads anim.is_active from the destroyed node.
OnTimer(S, timer_id, t) ==
  IF timer_id \notin DOMAIN S.anims
    THEN [S |-> S, ret |-> FALSE, dangling |-> FALSE]
  ELSE IF ~S.anims[timer_id].is_active
    THEN [S |-> [S EXCEPT !.anims = Erase(S.anims, timer_id)],
          ret |-> TRUE, dangling |-> FALSE]
  ELSE \* U: the object as UpdateAnimation(anim) leaves it
       CHOOSE R \in
         {IF timer_id \notin DOMAIN U.anims
            THEN [S |-> U, ret |-> TRUE, dangling |-> TRUE]
          ELSE IF ~U.anims[timer_id].is_active
            THEN [S |-> [U EXCEPT !.anims = Erase(U.anims, timer_id)],
                  ret |-> TRUE, dangling |-> FALSE]
          ELSE [S |-> U, ret |-> TRUE, dangling |-> FALSE] :
            U \in {UpdateAnimation(S, timer_id, t)}} : TRUE

\* ------------------------------------------------------------------ inputs
PositionRequest(easing, duration, cb) ==
  [AnimationRequest EXCEPT !.property = "kPosition", !.easing = easing,
     !.target_x = 4 * LogDen, !.target_y = 6 * LogDen,
     !.duration = duration, !.on_complete = cb]

SizeRequest(easing, duration, cb) ==
  [AnimationRequest EXCEPT !.property = "kSize", !.easing = easing,
     !.target_width = 20 * LogDen, !.target_height = 10 * LogDen,
     !.duration = duration, !.on_complete = cb]

BoundsRequest(easing, duration, cb) ==
  [AnimationRequest EXCEPT !.property = "kBounds", !.easing = easing,
     !.target_x = 2 * LogDen, !.target_y = 8 * LogDen,
     !.target_width = 16 * LogDen, !.target_height = 12 * LogDen,
     !.duration = duration, !.on_complete = cb]

OpacityRequest(target, easing, duration, cb) ==
  [AnimationRequest EXCEPT !.property = "kOpacity", !.easing = easing,
     !.target_opacity = target, !.duration = duration, !.on_complete = cb]

RequestFor(p, easing, duration, cb) ==
  CASE p = "kPosition" -> PositionRequest(easing, duration, cb)
    [] p = "kSize" -> SizeRequest(easing, duration, cb)
    [] p = "kBounds" -> BoundsRequest(easing, duration, cb)
    [] OTHER -> OpacityRequest(OpDen \div 2, easing, duration, cb)

\* The queries of a StartAnimation all answer.
Answered(requests) == {<<request, QueriesOk>> : request \in requests}

\* The StartAnimation calls under Spec: every property, with a completion
\* callback that only observes.
Calls ==
  Answered({RequestFor(p, "kLinear", 2, NoopCallback) : p \in AnimationPropertyType})

\* A request that carries its own spring parameters.
CustomSpringRequest ==
  [PositionRequest("kSpringBounce", 2, NullCallback) EXCEPT
     !.use_custom_spring = TRUE, !.spring_damping = 30, !.spring_stiffness = 0]

Garbage == [left |-> 5, top |-> 9, right |-> 3, bottom |-> 11]

\* The StartAnimation calls under SpecWide.
CallsWide ==
  Answered(
    \* every property, with a completion callback that only observes
    {RequestFor(p, "kLinear", 2, NoopCallback) : p \in AnimationPropertyType}
    \* completion callbacks that call back into the WindowApi
    \cup {PositionRequest("kLinear", 2, cb) :
            cb \in {StopCallback(TimerIdBase), StopCallback(TimerIdBase + 1),
                    StopAllCallback, StartCallback("kPosition"),
                    StartCallback("kOpacity")}}
    \cup {OpacityRequest(OpDen \div 2, "kLinear", 2, StartCallback("kOpacity"))}
    \* every easing kind, no completion callback
    \cup {PositionRequest(e, 2, NullCallback) : e \in AnimationEasingType}
    \cup {OpacityRequest(0, "kOvershoot", 3, NoopCallback)}
    \* zero duration
    \cup {SizeRequest("kEaseIn", 0, NoopCallback)}
    \* custom spring parameters, not clamped by StartAnimation
    \cup {CustomSpringRequest})
  \* platform queries that fail
  \cup {<<PositionRequest("kLinear", 2, NullCallback), q>> :
          q \in {[dwm_ok |-> FALSE, rect_ok |-> TRUE, garbage |-> Garbage],
                 [dwm_ok |-> FALSE, rect_ok |-> FALSE, garbage |-> ZeroRect]}}

\* Identifiers the callers and the message loop pass in: one never issued,
\* and every one issued so far.
AllIds == TimerIdBase .. (TimerIdBase + 2 * MaxStarts)
CallerIds == (TimerIdBase - 1) .. (next_timer_id_ - 1)

\* Construction: WindowApi(HostWindow* window), and the window it is given.
Configs ==
  {[window_ |-> FALSE, hwnd |-> FALSE, dpi |-> 96, shadow |-> 0],
   [window_ |-> TRUE, hwnd |-> FALSE, dpi |-> 96, shadow |-> 0],
   [window_ |-> TRUE, hwnd |-> TRUE, dpi |-> 144, shadow |-> 6]}

\* ------------------------------------------- the immediate operations
\* static_cast<int>(v * scale_factor), v in 1/LogDen
ToPhysical(v, sf) == Trunc(v * sf, LogDen * USER_DEFAULT_SCREEN_DPI)

\* The drop-shadow insets an operation computes from the two queries, or
\* none when either query fails.
ShadowOffsets(S, q) ==
  LET frame_rect == FrameBounds(S)
      window_rect == S.rect
  IN IF q.dwm_ok /\ q.rect_ok
       THEN [left |-> frame_rect.left - window_rect.left,
             right |-> window_rect.right - frame_rect.right,
             top |-> frame_rect.top - window_rect.top,
             bottom |-> window_rect.bottom - frame_rect.bottom]
       ELSE [left |-> 0, right |-> 0, top |-> 0, bottom |-> 0]

\* struct WindowBoundsRequest
WindowBoundsRequest ==
  [has_pos |-> FALSE, x |-> 0, y |-> 0, has_preferred_view_size |-> FALSE,
   preferred_view_width |-> 0, preferred_view_height |-> 0]

\* void SetBounds(const WindowBoundsRequest* request)
SetBounds(S, request, q) ==
  IF ~WindowHandle(S) THEN S
  ELSE LET scale_factor == S.dpi
           physical_x == ToPhysical(request.x, scale_factor)
           physical_y == ToPhysical(request.y, scale_factor)
           physical_width == ToPhysical(request.preferred_view_width, scale_factor)
           physical_height == ToPhysical(request.preferred_view_height, scale_factor)
           flags == (IF request.has_pos THEN {} ELSE {"SWP_NOMOVE"})
                      \cup (IF request.has_preferred_view_size THEN {}
                            ELSE {"SWP_NOSIZE"})
           sh == ShadowOffsets(S, q)
       IN SetWindowPos(S, physical_x - sh.left, physical_y - sh.top,
                       physical_width + (sh.left + sh.right),
                       physical_height + (sh.top + sh.bottom), flags)

\* Point GetPosition()
GetPosition(S, q) ==
  IF ~WindowHandle(S) THEN [x |-> 0, y |-> 0]
  ELSE IF q.dwm_ok
    THEN [x |-> ToLogical(FrameBounds(S).left, S.dpi),
          y |-> ToLogical(FrameBounds(S).top, S.dpi)]
  ELSE IF q.rect_ok
    THEN [x |-> ToLogical(S.rect.left, S.dpi), y |-> ToLogical(S.rect.top, S.dpi)]
  ELSE [x |-> 0, y |-> 0]

\* Rect GetBounds()
GetBounds(S, q) ==
  LET Of(r) == [x |-> ToLogical(r.left, S.dpi), y |-> ToLogical(r.top, S.dpi),
                width |-> ToLogical(r.right - r.left, S.dpi),
                height |-> ToLogical(r.bottom - r.top, S.dpi)]
  IN IF ~WindowHandle(S) THEN Of(ZeroRect)
     ELSE IF q.dwm_ok THEN Of(FrameBounds(S))
     ELSE IF q.rect_ok THEN Of(S.rect)
     ELSE Of(ZeroRect)

\* The drag session of the WindowApi, as one value.
Drag ==
  [is_dragging_ |-> is_dragging_,
   drag_start_cursor_pos_ |-> drag_start_cursor_pos_,
   drag_start_window_pos_ |-> drag_start_window_pos_]

\* DragWindow whose update puts the window's corner under the cursor
DragWindowToCursor(S, D, state, cursor_pos, rect_ok) ==
  IF ~WindowHandle(S) THEN [S |-> S, D |-> D]
  ELSE CASE state = 0 ->
              [S |-> S,
               D |-> [is_dragging_ |-> TRUE,
                      drag_start_cursor_pos_ |-> cursor_pos,
                      drag_start_window_pos_ |->
                        IF rect_ok THEN [x |-> S.rect.left, y |-> S.rect.top]
                        ELSE D.drag_start_window_pos_]]
         [] state = 1 /\ D.is_dragging_ ->
              [S |-> SetWindowPos(S, cursor_pos.x, cursor_pos.y, 0, 0,
                                  {"SWP_NOSIZE"}),
               D |-> D]
         [] state = 2 -> [S |-> S, D |-> [D EXCEPT !.is_dragging_ = FALSE]]
         [] OTHER -> [S |-> S, D |-> D]

\* DragWindow whose end leaves the session as it is
DragWindowNeverEnds(S, D, state, cursor_pos, rect_ok) ==
  IF ~WindowHandle(S) THEN [S |-> S, D |-> D]
  ELSE CASE state = 0 ->
              [S |-> S,
               D |-> [is_dragging_ |-> TRUE,
                      drag_start_cursor_pos_ |-> cursor_pos,
                      drag_start_window_pos_ |->
                        IF rect_ok THEN [x |-> S.rect.left, y |-> S.rect.top]
                        ELSE D.drag_start_window_pos_]]
         [] state = 1 /\ D.is_dragging_ ->
              [S |-> SetWindowPos(
                       S,
                       D.drag_start_window_pos_.x
                         + (cursor_pos.x - D.drag_start_cursor_pos_.x),
                       D.drag_start_window_pos_.y
                         + (cursor_pos.y - D.drag_start_cursor_pos_.y),
                       0, 0, {"SWP_NOSIZE"}),
               D |-> D]
         [] OTHER -> [S |-> S, D |-> D]

\* void DragWindow(int state), with the cursor at cursor_pos; rect_ok is
\* whether GetWindowRect answers.
DragWindow(S, D, state, cursor_pos, rect_ok) ==
  IF ~WindowHandle(S) THEN [S |-> S, D |-> D]
  ELSE CASE state = 0 ->
              [S |-> S,
               D |-> [is_dragging_ |-> TRUE,
                      drag_start_cursor_pos_ |-> cursor_pos,
                      drag_start_window_pos_ |->
                        IF rect_ok THEN [x |-> S.rect.left, y |-> S.rect.top]
                        ELSE D.drag_start_window_pos_]]
         [] state = 1 /\ D.is_dragging_ ->
              [S |-> SetWindowPos(
                       S,
                       D.drag_start_window_pos_.x
                         + (cursor_pos.x - D.drag_start_cursor_pos_.x),
                       D.drag_start_window_pos_.y
                         + (cursor_pos.y - D.drag_start_cursor_pos_.y),
                       0, 0, {"SWP_NOSIZE"}),
               D |-> D]
         [] state = 2 -> [S |-> S, D |-> [D EXCEPT !.is_dragging_ = FALSE]]
         [] OTHER -> [S |-> S, D |-> D]

\* static_cast<int8_t>(v): the value when int8_t holds it; otherwise the
\* conversion is undefined, and a build wraps it or saturates it.
StaticCastInt8(v) ==
  IF v \in -128 .. 127 THEN {v}
  ELSE {((v + 128) % 256) - 128, IF v > 127 THEN 127 ELSE -128}

\* The alpha bytes SetLayeredWindowAttributes can receive from
\* static_cast<int8_t>(255 * opacity), opacity in 1/OpDen.
SetOpacityAlpha(opacity) ==
  {i % 256 : i \in StaticCastInt8(Trunc(255 * opacity, OpDen))}

\* void SetOpacity(double opacity), the cast giving bAlpha
SetOpacity(S, opacity, bAlpha) ==
  IF ~WindowHandle(S) THEN S
  ELSE SetLayeredWindowAttributes([S EXCEPT !.layered = TRUE], bAlpha)

\* void ApplyPositionImmediate(HWND hwnd, double x, double y, double scale_factor)
ApplyPositionImmediate(S, x, y, scale_factor, q) ==
  LET sh == ShadowOffsets(S, q)
  IN SetWindowPos(S, ToPhysical(x, scale_factor) - sh.left,
                  ToPhysical(y, scale_factor) - sh.top, 0, 0, {"SWP_NOSIZE"})

\* void ApplySizeImmediate(HWND hwnd, double width, double height, double scale_factor)
ApplySizeImmediate(S, width, height, scale_factor, q) ==
  LET sh == ShadowOffsets(S, q)
  IN SetWindowPos(S, 0, 0,
                  ToPhysical(width, scale_factor) + (sh.left + sh.right),
                  ToPhysical(height, scale_factor) + (sh.top + sh.bottom),
                  {"SWP_NOMOVE"})

\* void ApplyBoundsImmediate(HWND hwnd, double x, double y, double width,
\*                           double height, double scale_factor)
ApplyBoundsImmediate(S, x, y, width, height, scale_factor, q) ==
  LET sh == ShadowOffsets(S, q)
  IN SetWindowPos(S, ToPhysical(x, scale_factor) - sh.left,
                  ToPhysical(y, scale_factor) - sh.top,
                  ToPhysical(width, scale_factor) + (sh.left + sh.right),
                  ToPhysical(height, scale_factor) + (sh.top + sh.bottom), {})

\* void ApplyOpacityImmediate(HWND hwnd, double opacity)
ApplyOpacityImmediate(S, opacity) ==
  SetLayeredWindowAttributes([S EXCEPT !.layered = TRUE], AlphaByte(opacity, 1))

\* void ShowWindowApi(int nCmd) on the show state W of the window;
\* engine_ok is whether window_->GetEngine() is non-null.  With a null
\* window_ the call reads through the null pointer.
ShowWindowApi(S, W, nCmd, engine_ok) ==
  IF ~S.window_ THEN [W |-> W, null_deref |-> TRUE]
  ELSE IF nCmd \in {SW_SHOW, SW_SHOWNOACTIVATE} /\ engine_ok
    THEN [W |-> [W EXCEPT !.next_frame_callback = nCmd], null_deref |-> FALSE]
  ELSE [W |-> [W EXCEPT !.show_cmd = IF S.hwnd THEN nCmd ELSE @],
        null_deref |-> FALSE]

\* ------------------------------------------------- the scheduler's state
\* The consumers that exist, in the order std::set keeps their pointers, and
\* the null shared_ptr.
Consumers == <<"w1", "w2">>
NullApi == "null"

\* The threads: the callers of the scheduler and the timer-queue thread that
\* runs TimerCallback (WT_EXECUTEINTIMERTHREAD).
MainThread == "main"
WorkerThread == "worker"
TimerThread == "timer"

IdleCall == [pc |-> "idle", op |-> "none", arg |-> NullApi, ret |-> 0]

IdleTick ==
  [pc |-> "idle", n |-> 0, gap |-> 0, delta_ms |-> 0, i |-> 0, rebuilds |-> 0,
   delivered |-> <<>>, source |-> {}, always_in |-> {}, ever_in |-> {}]

\* WindowApiTimer::WindowApiTimer() and the member initialisers
WindowApiTimer ==
  /\ windowApis_ = {}
  /\ windowApis_cache_ = <<>>
  /\ windowApis_dirty_ = TRUE
  /\ windowApis_mutex_ = "free"
  /\ timer_running_ = FALSE
  /\ initialized_ = FALSE
  /\ last_tick_time_ms_ = 0
  /\ clock_ms = 0
  /\ caller = [th \in {MainThread, WorkerThread} |-> IdleCall]
  /\ tick = IdleTick
  /\ published = {}
  /\ dirty_by = "WindowApiTimer"
  /\ calls_made = 0
  /\ engine_ = "nullptr"
  /\ timer_queue_ = FALSE
  /\ timer_ = FALSE
  /\ timers_created = 0
  /\ init_calls = 0
  /\ init_result = "none"

\* ------------------------------------------------------------ the machine
Init ==
  /\ \E c \in Configs :
       /\ window_ = c.window_
       /\ hwnd = c.hwnd
       /\ dpi = c.dpi
       /\ shadow = c.shadow
  /\ active_animations_ = [k \in {} |-> WindowAnimation]
  /\ next_timer_id_ = TimerIdBase
  /\ spring_damping_ = DefaultDamping
  /\ spring_stiffness_ = DefaultStiffness
  /\ timers = {}
  /\ now = 0
  /\ rect = [left |-> 6, top |-> 12, right |-> 36, bottom |-> 30]
  /\ layered = FALSE
  /\ alpha = -1
  /\ last_call = NoCall
  /\ fired = [k \in AllIds |-> 0]
  /\ removed = {}
  /\ returned = <<>>
  /\ cb_view = NoView
  /\ dangling_read = FALSE
  /\ crashed = FALSE
  /\ last_op = [op |-> "WindowApi", ret |-> 0]
  /\ is_dragging_ = FALSE
  /\ drag_start_cursor_pos_ = [x |-> 0, y |-> 0]
  /\ drag_start_window_pos_ = [x |-> 0, y |-> 0]
  /\ cursor = [x |-> 40, y |-> 30]
  /\ show_cmd = SW_HIDE
  /\ next_frame_callback = NoCmd
  /\ null_deref = FALSE
  /\ last_arg = 0
  /\ api_calls = 0
  /\ WindowApiTimer

\* Writes a WindowApi value back to the variables.
WindowBecomes(S) ==
  /\ active_animations_' = S.anims
  /\ next_timer_id_' = S.next
  /\ spring_damping_' = S.damping
  /\ spring_stiffness_' = S.stiffness
  /\ timers' = S.timers
  /\ rect' = S.rect
  /\ layered' = S.layered
  /\ alpha' = S.alpha
  /\ last_call' = S.call
  /\ fired' = S.fired
  /\ removed' = S.removed
  /\ returned' = S.returned
  /\ cb_view' = S.view
  /\ UNCHANGED <<window_, hwnd, dpi, shadow>>
  /\ UNCHANGED timer_vars

\* The same, for the operations that leave the drag session and the show
\* state alone.
Becomes(S) ==
  /\ WindowBecomes(S)
  /\ UNCHANGED api_vars

DoStartAnimation(request, q) ==
  /\ \E S \in {Cur} : \E R \in {StartAnimation(S, request, q, now)} :
        /\ Becomes(R.S)
        /\ last_op' = [op |-> "StartAnimation", ret |-> R.ret]
  /\ UNCHANGED <<now, dangling_read, crashed>>

Erased(S, timer_id) == IF timer_id \in DOMAIN S.anims THEN 1 ELSE 0

DoStopAnimation(timer_id) ==
  /\ \E S \in {Cur} : \E R \in {StopAnimation(S, timer_id)} :
        /\ Becomes(R)
        /\ last_op' = [op |-> "StopAnimation", ret |-> Erased(S, timer_id)]
  /\ UNCHANGED <<now, dangling_read, crashed>>

DoStopAllAnimations ==
  /\ \E S \in {Cur} : \E R \in {StopAllAnimations(S)} : Becomes(R)
  /\ last_op' = [op |-> "StopAllAnimations",
                 ret |-> Cardinality(DOMAIN active_animations_
                                       \ DOMAIN active_animations_')]
  /\ UNCHANGED <<now, dangling_read, crashed>>

\* WM_TIMER for timer_id reaches the window: an armed timer fired, or a
\* message posted before KillTimer is still in the queue.  A dangling read
\* of is_active yields whatever the freed node holds: true, and OnTimer
\* returns; false, and OnTimer erases the same iterator a second time.
DoOnTimer(timer_id) ==
  /\ \E S \in {Cur} : \E R \in {OnTimer(S, timer_id, now)} :
        /\ Becomes(R.S)
        /\ dangling_read' = (dangling_read \/ R.dangling)
        /\ crashed' \in (IF R.dangling THEN BOOLEAN ELSE {FALSE})
        /\ last_op' = [op |-> "OnTimer", ret |-> IF R.ret THEN 1 ELSE 0]
  /\ UNCHANGED now

\* The performance counter advances.
QueryPerformanceCounter ==
  /\ now < MaxTime
  /\ now' = now + 1
  /\ UNCHANGED <<window_, hwnd, active_animations_, next_timer_id_,
                 spring_damping_, spring_stiffness_, timers, dpi, shadow, rect,
                 layered, alpha, last_call, fired, removed, returned, cb_view,
                 dangling_read, crashed, last_op>>
  /\ UNCHANGED timer_vars
  /\ UNCHANGED api_vars

\* What happens to a WindowApi besides the callers' StartAnimation.
Others ==
  \/ \E timer_id \in CallerIds : DoStopAnimation(timer_id)
  \/ DoStopAllAnimations
  \/ \E timer_id \in CallerIds : DoOnTimer(timer_id)
  \/ QueryPerformanceCounter

Next ==
  /\ ~crashed
  /\ \/ /\ next_timer_id_ < TimerIdBase + MaxStarts
        /\ \E c \in Calls : DoStartAnimation(c[1], c[2])
     \/ Others

Spec == Init /\ [][Next]_vars

NextWide ==
  /\ ~crashed
  /\ \/ /\ next_timer_id_ < TimerIdBase + MaxStartsWide
        /\ \E c \in CallsWide : DoStartAnimation(c[1], c[2])
     \/ Others

SpecWide == Init /\ [][NextWide]_vars

\* The StartAnimation calls under SpecLive: two properties, so that a start
\* may or may not evict, each with a completion callback that only observes.
CallsLive ==
  Answered({RequestFor(p, "kLinear", 2, NoopCallback) : p \in {"kOpacity", "kPosition"}})

LiveIds == TimerIdBase .. (TimerIdBase + MaxStartsLive - 1)

\* An armed timer posts WM_TIMER and the message loop delivers it.
TimerFires(timer_id) == timer_id \in timers /\ DoOnTimer(timer_id)

\* The callers start only animations the bounded clock lets run to their end.
NextLive ==
  /\ ~crashed
  /\ \/ /\ next_timer_id_ < TimerIdBase + MaxStartsLive
        /\ \E c \in CallsLive :
             now + c[1].duration <= MaxTime /\ DoStartAnimation(c[1], c[2])
     \/ Others

\* The clock advances, and an armed timer keeps firing until it is killed.
SpecLive ==
  /\ Init
  /\ [][NextLive]_vars
  /\ WF_vars(QueryPerformanceCounter)
  /\ \A timer_id \in LiveIds : WF_vars(TimerFires(timer_id))

\* ------------------------------------------------ spring parameters are set
\* The StartAnimation calls under SpecSpring: spring easing with the window's
\* parameters, over a distance long enough for the easing to show in whole
\* pixels, and with the request's own.
SpringRequest ==
  [PositionRequest("kSpringBounce", 2, NoopCallback) EXCEPT
     !.target_x = 20 * LogDen, !.target_y = 16 * LogDen]

CallsSpring == Answered({SpringRequest, CustomSpringRequest})

\* Arguments of SetSpringParameters: below, inside, on and above the ranges.
SpringInputs == {<<-5, 0>>, <<10, 100>>, <<20, 500>>, <<25, 700>>}

DoSetSpringParameters(damping, stiffness) ==
  /\ \E S \in {Cur} : Becomes(SetSpringParameters(S, damping, stiffness))
  /\ last_op' = [op |-> "SetSpringParameters", ret |-> 0]
  /\ UNCHANGED <<now, dangling_read, crashed>>

NextSpring ==
  /\ ~crashed
  /\ \/ /\ next_timer_id_ < TimerIdBase + MaxStartsSpring
        /\ \E c \in CallsSpring : DoStartAnimation(c[1], c[2])
     \/ \E in \in SpringInputs : DoSetSpringParameters(in[1], in[2])
     \/ \E timer_id \in CallerIds : DoOnTimer(timer_id)
     \/ QueryPerformanceCounter

SpecSpring == Init /\ [][NextSpring]_vars

\* ------------------------------------------------- a long linear animation
\* The request StartPositionAnimation builds and hands to StartAnimation.
StartPositionAnimation(target_x, target_y, duration, easing, on_complete) ==
  [AnimationRequest EXCEPT !.property = "kPosition", !.target_x = target_x,
     !.target_y = target_y, !.duration = duration, !.easing = easing,
     !.on_complete = on_complete]

\* The StartPositionAnimation calls under SpecLinear: to the origin, and
\* from wherever the window is to (100, 100) in 300 ms.
CallsLinear ==
  Answered({StartPositionAnimation(0, 0, 50, "kLinear", NoopCallback),
            StartPositionAnimation(100 * LogDen, 100 * LogDen, 300, "kLinear",
                                   NoopCallback)})

\* Time between two readings of the performance counter under SpecLinear.
JumpMs == 50

\* The performance counter, read JumpMs later.
QueryPerformanceCounterLater ==
  /\ now < MaxJumps * JumpMs
  /\ now' = now + JumpMs
  /\ UNCHANGED <<window_, hwnd, active_animations_, next_timer_id_,
                 spring_damping_, spring_stiffness_, timers, dpi, shadow, rect,
                 layered, alpha, last_call, fired, removed, returned, cb_view,
                 dangling_read, crashed, last_op>>
  /\ UNCHANGED timer_vars
  /\ UNCHANGED api_vars

\* The StartAnimation calls under SpecEnv: a linear move of the whole frame,
\* and a fade that can run beside it.
CallsEnv ==
  Answered({BoundsRequest("kLinear", 3, NullCallback),
            OpacityRequest(0, "kLinear", 2, NullCallback)})

DpiValues == {96, 144, 192}
ShadowValues == {0, 6}

\* WM_DPICHANGED: the window moved to a monitor of another DPI.
DpiChanged ==
  /\ hwnd
  /\ dpi' \in DpiValues \ {dpi}
  /\ last_op' = [op |-> "WM_DPICHANGED", ret |-> 0]
  /\ UNCHANGED <<window_, hwnd, active_animations_, next_timer_id_,
                 spring_damping_, spring_stiffness_, timers, now, shadow, rect,
                 layered, alpha, last_call, fired, removed, returned, cb_view,
                 dangling_read, crashed>>
  /\ UNCHANGED timer_vars
  /\ UNCHANGED api_vars

\* The visible frame changes inside the window rectangle (the drop shadow
\* comes or goes, as when the window is maximised or restored).
FrameChanged ==
  /\ hwnd
  /\ shadow' \in ShadowValues \ {shadow}
  /\ last_op' = [op |-> "WM_WINDOWPOSCHANGED", ret |-> 0]
  /\ UNCHANGED <<window_, hwnd, active_animations_, next_timer_id_,
                 spring_damping_, spring_stiffness_, timers, now, dpi, rect,
                 layered, alpha, last_call, fired, removed, returned, cb_view,
                 dangling_read, crashed>>
  /\ UNCHANGED timer_vars
  /\ UNCHANGED api_vars

NextEnv ==
  /\ ~crashed
  /\ \/ /\ next_timer_id_ < TimerIdBase + MaxStartsEnv
        /\ \E c \in CallsEnv : DoStartAnimation(c[1], c[2])
     \/ DpiChanged
     \/ FrameChanged
     \/ \E timer_id \in CallerIds : DoOnTimer(timer_id)
     \/ QueryPerformanceCounter

SpecEnv == Init /\ [][NextEnv]_vars

\* Position animations of a window that can be at scale factor 1 without
\* drop shadow, ticked every JumpMs.
NextLinear ==
  /\ ~crashed
  /\ \/ /\ next_timer_id_ < TimerIdBase + MaxStartsLinear
        /\ \E c \in CallsLinear : DoStartAnimation(c[1], c[2])
     \/ /\ active_animations_ = <<>>
        /\ DpiChanged
     \/ /\ active_animations_ = <<>>
        /\ FrameChanged
     \/ \E timer_id \in CallerIds : DoOnTimer(timer_id)
     \/ QueryPerformanceCounterLater

SpecLinear == Init /\ [][NextLinear]_vars

\* ------------------------------------- the immediate operations' steps
\* A public operation was called: what it was given and what it returned.
Called(op, arg, ret) ==
  /\ last_op' = [op |-> op, ret |-> ret]
  /\ last_arg' = arg
  /\ api_calls' = api_calls + 1

DoDragWindow(state, rect_ok) ==
  /\ \E S \in {Cur} : \E R \in {DragWindow(S, Drag, state, cursor, rect_ok)} :
        /\ WindowBecomes(R.S)
        /\ is_dragging_' = R.D.is_dragging_
        /\ drag_start_cursor_pos_' = R.D.drag_start_cursor_pos_
        /\ drag_start_window_pos_' = R.D.drag_start_window_pos_
  /\ Called("DragWindow", state, 0)
  /\ UNCHANGED <<now, dangling_read, crashed, cursor, show_cmd,
                 next_frame_callback, null_deref>>

CursorPositions ==
  {[x |-> 40, y |-> 30], [x |-> 47, y |-> 30], [x |-> 35, y |-> 41]}

\* The user moves the pointer.
CursorMoves ==
  /\ cursor' \in CursorPositions \ {cursor}
  /\ last_op' = [op |-> "WM_MOUSEMOVE", ret |-> 0]
  /\ UNCHANGED <<window_, hwnd, active_animations_, next_timer_id_,
                 spring_damping_, spring_stiffness_, timers, now, dpi, shadow,
                 rect, layered, alpha, last_call, fired, removed, returned,
                 cb_view, dangling_read, crashed, is_dragging_,
                 drag_start_cursor_pos_, drag_start_window_pos_, show_cmd,
                 next_frame_callback, null_deref, last_arg, api_calls>>
  /\ UNCHANGED timer_vars

\* ShowWindowApi.  What follows a read through the null window_ is
\* undefined: the process may stop there or go on.
DoShowWindowApi(nCmd, engine_ok) ==
  /\ \E S \in {Cur} :
       \E R \in {ShowWindowApi(S, [show_cmd |-> show_cmd,
                                   next_frame_callback |-> next_frame_callback],
                               nCmd, engine_ok)} :
          /\ show_cmd' = R.W.show_cmd
          /\ next_frame_callback' = R.W.next_frame_callback
          /\ null_deref' = (null_deref \/ R.null_deref)
          /\ crashed' \in (IF R.null_deref THEN BOOLEAN ELSE {crashed})
  /\ Called("ShowWindowApi", nCmd, 0)
  /\ UNCHANGED <<window_, hwnd, active_animations_, next_timer_id_,
                 spring_damping_, spring_stiffness_, timers, now, dpi, shadow,
                 rect, layered, alpha, last_call, fired, removed, returned,
                 cb_view, dangling_read, is_dragging_, drag_start_cursor_pos_,
                 drag_start_window_pos_, cursor>>
  /\ UNCHANGED timer_vars

\* The engine draws its next frame and runs the callback ShowWindowApi left:
\* [this, nCmd]() { ::ShowWindow(window_->GetWindowHandle(), nCmd); }
NextFrameCallback ==
  /\ next_frame_callback # NoCmd
  /\ show_cmd' = IF hwnd THEN next_frame_callback ELSE show_cmd
  /\ next_frame_callback' = NoCmd
  /\ last_op' = [op |-> "NextFrameCallback", ret |-> 0]
  /\ UNCHANGED <<window_, hwnd, active_animations_, next_timer_id_,
                 spring_damping_, spring_stiffness_, timers, now, dpi, shadow,
                 rect, layered, alpha, last_call, fired, removed, returned,
                 cb_view, dangling_read, crashed, is_dragging_,
                 drag_start_cursor_pos_, drag_start_window_pos_, cursor,
                 null_deref, last_arg, api_calls>>
  /\ UNCHANGED timer_vars

\* The rest of the state of an immediate operation that only places the
\* window or reads it.
PlacesOnly ==
  UNCHANGED <<now, dangling_read, crashed, is_dragging_,
              drag_start_cursor_pos_, drag_start_window_pos_, cursor,
              show_cmd, next_frame_callback, null_deref>>

DoSetBounds(request, q) ==
  /\ \E S \in {Cur} : \E R \in {SetBounds(S, request, q)} : WindowBecomes(R)
  /\ Called("SetBounds", [request |-> request, q |-> q], 0)
  /\ PlacesOnly

DoGetPosition(q) ==
  /\ \E S \in {Cur} : \E R \in {GetPosition(S, q)} :
        /\ WindowBecomes(S)
        /\ Called("GetPosition", q, R)
  /\ PlacesOnly

DoGetBounds(q) ==
  /\ \E S \in {Cur} : \E R \in {GetBounds(S, q)} :
        /\ WindowBecomes(S)
        /\ Called("GetBounds", q, R)
  /\ PlacesOnly

DoSetOpacity(opacity) ==
  /\ \E S \in {Cur} : \E bAlpha \in SetOpacityAlpha(opacity) :
       \E R \in {SetOpacity(S, opacity, bAlpha)} : WindowBecomes(R)
  /\ Called("SetOpacity", opacity, 0)
  /\ PlacesOnly

\* The private helpers, applied to the window's handle at its scale factor.
DoApplyPositionImmediate(x, y, q) ==
  /\ hwnd
  /\ \E S \in {Cur} : \E R \in {ApplyPositionImmediate(S, x, y, S.dpi, q)} :
        WindowBecomes(R)
  /\ Called("ApplyPositionImmediate",
            [request |-> [WindowBoundsRequest EXCEPT !.has_pos = TRUE,
                                                     !.x = x, !.y = y],
             q |-> q], 0)
  /\ PlacesOnly

DoApplySizeImmediate(width, height, q) ==
  /\ hwnd
  /\ \E S \in {Cur} : \E R \in {ApplySizeImmediate(S, width, height, S.dpi, q)} :
        WindowBecomes(R)
  /\ Called("ApplySizeImmediate",
            [request |-> [WindowBoundsRequest EXCEPT
                            !.has_preferred_view_size = TRUE,
                            !.preferred_view_width = width,
                            !.preferred_view_height = height],
             q |-> q], 0)
  /\ PlacesOnly

DoApplyBoundsImmediate(x, y, width, height, q) ==
  /\ hwnd
  /\ \E S \in {Cur} :
       \E R \in {ApplyBoundsImmediate(S, x, y, width, height, S.dpi, q)} :
          WindowBecomes(R)
  /\ Called("ApplyBoundsImmediate",
            [request |-> [has_pos |-> TRUE, x |-> x, y |-> y,
                          has_preferred_view_size |-> TRUE,
                          preferred_view_width |-> width,
                          preferred_view_height |-> height],
             q |-> q], 0)
  /\ PlacesOnly

DoApplyOpacityImmediate(opacity) ==
  /\ hwnd
  /\ \E S \in {Cur} : \E R \in {ApplyOpacityImmediate(S, opacity)} :
        WindowBecomes(R)
  /\ Called("ApplyOpacityImmediate", opacity, 0)
  /\ PlacesOnly

\* What the platform queries of an immediate operation can answer.
Queries ==
  {[dwm_ok |-> d, rect_ok |-> r, garbage |-> ZeroRect] : d, r \in BOOLEAN}

\* The bounds the callers set: a position, a size, and both.
BoundsRequests ==
  {[WindowBoundsRequest EXCEPT !.has_pos = TRUE, !.x = 4 * LogDen + 3,
                               !.y = 6 * LogDen],
   [WindowBoundsRequest EXCEPT !.has_preferred_view_size = TRUE,
                               !.preferred_view_width = 20 * LogDen + 1,
                               !.preferred_view_height = 10 * LogDen],
   [has_pos |-> TRUE, x |-> 2 * LogDen, y |-> 8 * LogDen + 5,
    has_preferred_view_size |-> TRUE, preferred_view_width |-> 16 * LogDen,
    preferred_view_height |-> 12 * LogDen + 2]}

\* The opacities the callers set, in 1/OpDen: 0, 0.2, 0.5, 0.7, 1, and two
\* outside [0, 1].
Opacities == {0, 102, 255, 357, OpDen, -102, 765}

\* A window that is dragged, shown, placed and queried, whatever it was
\* constructed with.
NextDrag ==
  /\ ~crashed
  /\ \/ /\ api_calls < MaxApiCalls
        /\ \/ \E state \in 0 .. 3 : \E rect_ok \in BOOLEAN :
                DoDragWindow(state, rect_ok)
           \/ \E nCmd \in {SW_HIDE, SW_SHOWNOACTIVATE, SW_SHOW} :
                \E engine_ok \in BOOLEAN : DoShowWindowApi(nCmd, engine_ok)
           \/ \E request \in BoundsRequests : DoSetBounds(request, QueriesOk)
           \/ DoSetOpacity(OpDen \div 2)
           \/ \E q \in Queries : DoGetPosition(q)
           \/ \E q \in Queries : DoGetBounds(q)
     \/ CursorMoves
     \/ NextFrameCallback
     \/ /\ next_timer_id_ < TimerIdBase + MaxStartsDrag
        /\ DoStartAnimation(PositionRequest("kLinear", 2, NoopCallback), QueriesOk)
     \/ DoStopAllAnimations
     \/ \E timer_id \in CallerIds : DoOnTimer(timer_id)

SpecDrag == Init /\ [][NextDrag]_vars

InitJump == Init /\ hwnd = TRUE

\* A window that is placed at once, at any scale factor and with or without
\* drop shadow.
NextJump ==
  \/ /\ api_calls < MaxJumpCalls
     /\ \/ \E request \in BoundsRequests : \E q \in Queries :
             DoSetBounds(request, q)
        \/ \E opacity \in Opacities : DoSetOpacity(opacity)
        \/ \E r \in BoundsRequests : \E q \in Queries :
             \/ r.has_pos /\ ~r.has_preferred_view_size
                  /\ DoApplyPositionImmediate(r.x, r.y, q)
             \/ ~r.has_pos /\ r.has_preferred_view_size
                  /\ DoApplySizeImmediate(r.preferred_view_width,
                                          r.preferred_view_height, q)
             \/ r.has_pos /\ r.has_preferred_view_size
                  /\ DoApplyBoundsImmediate(r.x, r.y, r.preferred_view_width,
                                            r.preferred_view_height, q)
        \/ \E opacity \in Opacities : DoApplyOpacityImmediate(opacity)
  \/ DpiChanged
  \/ FrameChanged

SpecJump == InitJump /\ [][NextJump]_vars

\* The StartAnimation calls under SpecRound: the three geometric properties.
CallsRound ==
  Answered({RequestFor(p, "kLinear", 2, NullCallback) :
              p \in {"kPosition", "kSize", "kBounds"}})

\* A window whose geometry is animated from wherever the last animation
\* left it, at any scale factor and with or without drop shadow.
NextRound ==
  \/ /\ next_timer_id_ < TimerIdBase + MaxStartsRound
     /\ \E c \in CallsRound : DoStartAnimation(c[1], c[2])
  \/ /\ active_animations_ = <<>>
     /\ DpiChanged
  \/ /\ active_animations_ = <<>>
     /\ FrameChanged
  \/ \E timer_id \in CallerIds : DoOnTimer(timer_id)
  \/ QueryPerformanceCounter

SpecRound == InitJump /\ [][NextRound]_vars

\* The target opacities of the fades, in 1/OpDen: 0, 0.5, 1, and -0.2 and
\* 1.2 outside [0, 1].
OpacitiesFade == {0, OpDen \div 2, OpDen, -102, 612}

\* The StartAnimation calls under SpecFade: fades, linear or overshooting,
\* and a move that can run beside them.
CallsFade ==
  Answered({OpacityRequest(o, e, 3, NullCallback) :
              o \in OpacitiesFade, e \in {"kLinear", "kOvershoot"}}
           \cup {PositionRequest("kLinear", 3, NullCallback)})

\* A window that is faded, each fade starting from the opacity the last one
\* left.
NextFade ==
  \/ /\ next_timer_id_ < TimerIdBase + MaxStartsFade
     /\ \E c \in CallsFade : DoStartAnimation(c[1], c[2])
  \/ \E timer_id \in CallerIds : DoOnTimer(timer_id)
  \/ QueryPerformanceCounter

SpecFade == InitJump /\ [][NextFade]_vars

\* ------------------------------------------------------ the tick scheduler
\* The WindowApi's part of the state, which the scheduler leaves alone
\* (OnAnimationTickOnThread is outside this model).
window_vars == <<window_, hwnd, active_animations_, next_timer_id_,
                 spring_damping_, spring_stiffness_, timers, now, dpi, shadow,
                 rect, layered, alpha, last_call, fired, removed, returned,
                 cb_view, dangling_read, crashed, last_op, is_dragging_,
                 drag_start_cursor_pos_, drag_start_window_pos_, cursor,
                 show_cmd, next_frame_callback, null_deref, last_arg,
                 api_calls>>

\* for (const auto& window : windowApis_): the members in the set's order
InOrder(s) == LET In(w) == w \in s IN SelectSeq(Consumers, In)

Members(q) == {q[k] : k \in DOMAIN q}

\* What a tick in progress has seen of the registry: the consumers registered
\* all along since TimerCallback entered, and those registered at some time.
Observed(registry) ==
  IF tick.pc = "idle" THEN tick
  ELSE [tick EXCEPT !.always_in = @ \cap registry, !.ever_in = @ \cup registry]

\* an Initialize that never finds the scheduler initialized
AlreadyInitializedNever == FALSE

\* if (initialized_) return
AlreadyInitialized == initialized_

\* void Initialize(FlutterWindowsEngine* engine); queue_ok and timer_ok are
\* the results of CreateTimerQueue and CreateTimerQueueTimer.
Initialize(engine, queue_ok, timer_ok) ==
  /\ init_calls' = init_calls + 1
  /\ init_result' = IF AlreadyInitialized THEN "already"
                    ELSE IF ~(timer_queue_ \/ queue_ok) THEN "no queue"
                    ELSE IF ~timer_ok THEN "no timer" ELSE "created"
  /\ IF AlreadyInitialized
       THEN UNCHANGED <<engine_, last_tick_time_ms_, timer_queue_, timer_,
                        timers_created, timer_running_, initialized_>>
       ELSE /\ engine_' = engine
            /\ last_tick_time_ms_' = clock_ms
            /\ timer_queue_' = (timer_queue_ \/ queue_ok)
            /\ IF ~(timer_queue_ \/ queue_ok)
                 THEN UNCHANGED <<timer_, timers_created, timer_running_,
                                  initialized_>>
                 ELSE /\ timer_' = timer_ok
                      /\ timers_created' = timers_created + (IF timer_ok THEN 1 ELSE 0)
                      /\ timer_running_' = (timer_running_ \/ timer_ok)
                      /\ initialized_' = TRUE
  /\ UNCHANGED <<windowApis_, windowApis_cache_, windowApis_dirty_,
                 windowApis_mutex_, clock_ms, caller, tick, published,
                 dirty_by, calls_made>>
  /\ UNCHANGED window_vars

\* A thread enters a member function: AddWindowApi and RemoveWindowApi
\* return at once on a null pointer, every other call goes for the mutex.
EnterCall(th, op, arg) ==
  /\ caller[th].pc = "idle"
  /\ caller' = [caller EXCEPT ![th] =
       [pc |-> IF op \in {"AddWindowApi", "RemoveWindowApi"} /\ arg = NullApi
                 THEN "idle" ELSE "lock",
        op |-> op, arg |-> arg, ret |-> 0]]
  /\ calls_made' = calls_made + 1
  /\ UNCHANGED <<windowApis_, windowApis_cache_, windowApis_dirty_,
                 windowApis_mutex_, timer_running_, initialized_,
                 last_tick_time_ms_, clock_ms, tick, published, dirty_by>>
  /\ UNCHANGED init_vars
  /\ UNCHANGED window_vars

\* std::lock_guard<std::mutex> lock(windowApis_mutex_) in a caller
LockGuard(th) ==
  /\ caller[th].pc = "lock"
  /\ windowApis_mutex_ = "free"
  /\ windowApis_mutex_' = th
  /\ caller' = [caller EXCEPT ![th].pc = "body"]
  /\ UNCHANGED <<windowApis_, windowApis_cache_, windowApis_dirty_,
                 timer_running_, initialized_, last_tick_time_ms_, clock_ms,
                 tick, published, dirty_by, calls_made>>
  /\ UNCHANGED init_vars
  /\ UNCHANGED window_vars

\* windowApis_.insert(windowApi)
AddWindowApi(th) ==
  /\ caller[th].pc = "body" /\ caller[th].op = "AddWindowApi"
  /\ windowApis_' = windowApis_ \cup {caller[th].arg}
  /\ tick' = Observed(windowApis_')
  /\ caller' = [caller EXCEPT ![th].pc = "store"]
  /\ UNCHANGED <<windowApis_cache_, windowApis_dirty_, windowApis_mutex_,
                 timer_running_, initialized_, last_tick_time_ms_, clock_ms,
                 published, dirty_by, calls_made>>
  /\ UNCHANGED init_vars
  /\ UNCHANGED window_vars

\* windowApis_.erase(windowApi)
RemoveWindowApi(th) ==
  /\ caller[th].pc = "body" /\ caller[th].op = "RemoveWindowApi"
  /\ windowApis_' = windowApis_ \ {caller[th].arg}
  /\ tick' = Observed(windowApis_')
  /\ caller' = [caller EXCEPT ![th].pc = "store"]
  /\ UNCHANGED <<windowApis_cache_, windowApis_dirty_, windowApis_mutex_,
                 timer_running_, initialized_, last_tick_time_ms_, clock_ms,
                 published, dirty_by, calls_made>>
  /\ UNCHANGED init_vars
  /\ UNCHANGED window_vars

\* windowApis_.clear()
ClearWindows(th) ==
  /\ caller[th].pc = "body" /\ caller[th].op = "ClearWindows"
  /\ windowApis_' = {}
  /\ tick' = Observed(windowApis_')
  /\ caller' = [caller EXCEPT ![th].pc = "store"]
  /\ UNCHANGED <<windowApis_cache_, windowApis_dirty_, windowApis_mutex_,
                 timer_running_, initialized_, last_tick_time_ms_, clock_ms,
                 published, dirty_by, calls_made>>
  /\ UNCHANGED init_vars
  /\ UNCHANGED window_vars

\* return windowApis_.find(windowApi) != windowApis_.end()
HasWindowApi(th) ==
  /\ caller[th].pc = "body" /\ caller[th].op = "HasWindowApi"
  /\ caller' = [caller EXCEPT
       ![th].pc = "unlock",
       ![th].ret = IF caller[th].arg \in windowApis_ THEN 1 ELSE 0]
  /\ UNCHANGED <<windowApis_, windowApis_cache_, windowApis_dirty_,
                 windowApis_mutex_, timer_running_, initialized_,
                 last_tick_time_ms_, clock_ms, tick, published, dirty_by,
                 calls_made>>
  /\ UNCHANGED init_vars
  /\ UNCHANGED window_vars

\* return windowApis_.size()
GetWindowCount(th) ==
  /\ caller[th].pc = "body" /\ caller[th].op = "GetWindowCount"
  /\ caller' = [caller EXCEPT ![th].pc = "unlock",
                              ![th].ret = Cardinality(windowApis_)]
  /\ UNCHANGED <<windowApis_, windowApis_cache_, windowApis_dirty_,
                 windowApis_mutex_, timer_running_, initialized_,
                 last_tick_time_ms_, clock_ms, tick, published, dirty_by,
                 calls_made>>
  /\ UNCHANGED init_vars
  /\ UNCHANGED window_vars

\* a registration call that returns without marking the snapshot dirty
StoreDirtyNever(th) ==
  /\ caller[th].pc = "store"
  /\ caller' = [caller EXCEPT ![th].pc = "unlock"]
  /\ UNCHANGED <<windowApis_, windowApis_cache_, windowApis_dirty_,
                 windowApis_mutex_, timer_running_, initialized_,
                 last_tick_time_ms_, clock_ms, tick, published, dirty_by,
                 calls_made>>
  /\ UNCHANGED init_vars
  /\ UNCHANGED window_vars

\* windowApis_dirty_.store(true, std::memory_order_release)
StoreDirty(th) ==
  /\ caller[th].pc = "store"
  /\ windowApis_dirty_' = TRUE
  /\ dirty_by' = caller[th].op
  /\ caller' = [caller EXCEPT ![th].pc = "unlock"]
  /\ UNCHANGED <<windowApis_, windowApis_cache_, windowApis_mutex_,
                 timer_running_, initialized_, last_tick_time_ms_, clock_ms,
                 tick, published, calls_made>>
  /\ UNCHANGED init_vars
  /\ UNCHANGED window_vars

\* the lock_guard's destructor, and the return
Unlock(th) ==
  /\ caller[th].pc = "unlock"
  /\ windowApis_mutex_' = "free"
  /\ published' = IF caller[th].op \in {"AddWindowApi", "RemoveWindowApi",
                                        "ClearWindows"}
                    THEN windowApis_ ELSE published
  /\ caller' = [caller EXCEPT ![th].pc = "idle"]
  /\ UNCHANGED <<windowApis_, windowApis_cache_, windowApis_dirty_,
                 timer_running_, initialized_, last_tick_time_ms_, clock_ms,
                 tick, dirty_by, calls_made>>
  /\ UNCHANGED init_vars
  /\ UNCHANGED window_vars

\* a delta that is never replaced
DeltaMsUncapped(delta_ms) == delta_ms

\* if (delta_ms > 100.0) { delta_ms = 16.0; }
DeltaMs(delta_ms) ==
  IF delta_ms > kMaxDeltaMs THEN kDefaultDeltaMs ELSE delta_ms

\* TimerCallback on the timer thread, and OnTick down to the delta: the
\* performance counter has advanced by gap since it was last read.
TimerCallback(gap) ==
  /\ tick.pc = "idle"
  /\ timer_
  /\ timer_running_
  /\ clock_ms' = clock_ms + gap
  /\ last_tick_time_ms_' = clock_ms'
  /\ tick' = [tick EXCEPT
       !.pc = "check", !.n = @ + 1,
       !.gap = clock_ms' - last_tick_time_ms_,
       !.delta_ms = DeltaMs(clock_ms' - last_tick_time_ms_),
       !.i = 0, !.rebuilds = 0, !.delivered = <<>>,
       !.always_in = published \cap windowApis_,
       !.ever_in = published \cup windowApis_]
  /\ UNCHANGED <<windowApis_, windowApis_cache_, windowApis_dirty_,
                 windowApis_mutex_, timer_running_, initialized_, caller,
                 published, dirty_by, calls_made>>
  /\ UNCHANGED init_vars
  /\ UNCHANGED window_vars

\* a tick that rebuilds whatever the flag says
OnTickCheckAlways ==
  /\ tick.pc = "check"
  /\ tick' = [tick EXCEPT !.pc = "lock"]
  /\ UNCHANGED <<windowApis_, windowApis_cache_, windowApis_dirty_,
                 windowApis_mutex_, timer_running_, initialized_,
                 last_tick_time_ms_, clock_ms, caller, published, dirty_by,
                 calls_made>>
  /\ UNCHANGED init_vars
  /\ UNCHANGED window_vars

\* if (windowApis_dirty_.load(std::memory_order_acquire))
OnTickCheckDirty ==
  /\ tick.pc = "check"
  /\ tick' = IF windowApis_dirty_ THEN [tick EXCEPT !.pc = "lock"]
             ELSE [tick EXCEPT !.pc = "deliver", !.i = 1]
  /\ UNCHANGED <<windowApis_, windowApis_cache_, windowApis_dirty_,
                 windowApis_mutex_, timer_running_, initialized_,
                 last_tick_time_ms_, clock_ms, caller, published, dirty_by,
                 calls_made>>
  /\ UNCHANGED init_vars
  /\ UNCHANGED window_vars

\* a rebuild that does not wait for the mutex
OnTickNoLock ==
  /\ tick.pc = "lock"
  /\ tick' = [tick EXCEPT !.pc = "recheck"]
  /\ UNCHANGED <<windowApis_, windowApis_cache_, windowApis_dirty_,
                 windowApis_mutex_, timer_running_, initialized_,
                 last_tick_time_ms_, clock_ms, caller, published, dirty_by,
                 calls_made>>
  /\ UNCHANGED init_vars
  /\ UNCHANGED window_vars

\* std::lock_guard<std::mutex> lock(windowApis_mutex_) in OnTick
OnTickLock ==
  /\ tick.pc = "lock"
  /\ windowApis_mutex_ = "free"
  /\ windowApis_mutex_' = TimerThread
  /\ tick' = [tick EXCEPT !.pc = "recheck"]
  /\ UNCHANGED <<windowApis_, windowApis_cache_, windowApis_dirty_,
                 timer_running_, initialized_, last_tick_time_ms_, clock_ms,
                 caller, published, dirty_by, calls_made>>
  /\ UNCHANGED init_vars
  /\ UNCHANGED window_vars

\* if (windowApis_dirty_.load(std::memory_order_relaxed))
OnTickRecheck ==
  /\ tick.pc = "recheck"
  /\ tick' = [tick EXCEPT !.pc = IF windowApis_dirty_ THEN "clear" ELSE "unlock"]
  /\ UNCHANGED <<windowApis_, windowApis_cache_, windowApis_dirty_,
                 windowApis_mutex_, timer_running_, initialized_,
                 last_tick_time_ms_, clock_ms, caller, published, dirty_by,
                 calls_made>>
  /\ UNCHANGED init_vars
  /\ UNCHANGED window_vars

\* windowApis_cache_.clear(); windowApis_cache_.reserve(windowApis_.size())
OnTickClear ==
  /\ tick.pc = "clear"
  /\ windowApis_cache_' = <<>>
  /\ tick' = [tick EXCEPT !.pc = "copy"]
  /\ UNCHANGED <<windowApis_, windowApis_dirty_, windowApis_mutex_,
                 timer_running_, initialized_, last_tick_time_ms_, clock_ms,
                 caller, published, dirty_by, calls_made>>
  /\ UNCHANGED init_vars
  /\ UNCHANGED window_vars

\* a rebuild whose loop pushes every consumer twice
OnTickCopyTwice ==
  /\ tick.pc = "copy"
  /\ windowApis_cache_' = windowApis_cache_ \o InOrder(windowApis_)
                             \o InOrder(windowApis_)
  /\ tick' = [tick EXCEPT !.pc = "clean", !.source = windowApis_,
                          !.rebuilds = @ + 1]
  /\ UNCHANGED <<windowApis_, windowApis_dirty_, windowApis_mutex_,
                 timer_running_, initialized_, last_tick_time_ms_, clock_ms,
                 caller, published, dirty_by, calls_made>>
  /\ UNCHANGED init_vars
  /\ UNCHANGED window_vars

\* for (const auto& window : windowApis_) windowApis_cache_.push_back(window)
OnTickCopy ==
  /\ tick.pc = "copy"
  /\ windowApis_cache_' = windowApis_cache_ \o InOrder(windowApis_)
  /\ tick' = [tick EXCEPT !.pc = "clean", !.source = windowApis_,
                          !.rebuilds = @ + 1]
  /\ UNCHANGED <<windowApis_, windowApis_dirty_, windowApis_mutex_,
                 timer_running_, initialized_, last_tick_time_ms_, clock_ms,
                 caller, published, dirty_by, calls_made>>
  /\ UNCHANGED init_vars
  /\ UNCHANGED window_vars

\* windowApis_dirty_.store(false, std::memory_order_release)
OnTickStoreClean ==
  /\ tick.pc = "clean"
  /\ windowApis_dirty_' = FALSE
  /\ dirty_by' = "OnTick"
  /\ tick' = [tick EXCEPT !.pc = "unlock"]
  /\ UNCHANGED <<windowApis_, windowApis_cache_, windowApis_mutex_,
                 timer_running_, initialized_, last_tick_time_ms_, clock_ms,
                 caller, published, calls_made>>
  /\ UNCHANGED init_vars
  /\ UNCHANGED window_vars

\* the lock_guard's destructor in OnTick
OnTickUnlock ==
  /\ tick.pc = "unlock"
  /\ windowApis_mutex_' = "free"
  /\ tick' = [tick EXCEPT !.pc = "deliver", !.i = 1]
  /\ UNCHANGED <<windowApis_, windowApis_cache_, windowApis_dirty_,
                 timer_running_, initialized_, last_tick_time_ms_, clock_ms,
                 caller, published, dirty_by, calls_made>>
  /\ UNCHANGED init_vars
  /\ UNCHANGED window_vars

\* for (const auto& window : windowApis_cache_)
\*   if (window) window->OnAnimationTickOnThread(delta_ms);
\* one pass of the loop, made by the thread that runs OnTick, or its end.
OnTickDeliver ==
  /\ tick.pc = "deliver"
  /\ tick' = IF tick.i <= Len(windowApis_cache_)
               THEN [tick EXCEPT
                       !.i = @ + 1,
                       !.delivered =
                         IF windowApis_cache_[tick.i] # NullApi
                           THEN Append(@, [consumer |-> windowApis_cache_[tick.i],
                                           delta_ms |-> tick.delta_ms,
                                           thread |-> TimerThread])
                           ELSE @]
               ELSE [tick EXCEPT !.pc = "idle"]
  /\ UNCHANGED <<windowApis_, windowApis_cache_, windowApis_dirty_,
                 windowApis_mutex_, timer_running_, initialized_,
                 last_tick_time_ms_, clock_ms, caller, published, dirty_by,
                 calls_made>>
  /\ UNCHANGED init_vars
  /\ UNCHANGED window_vars

\* OnTick after the delta, step by step.
OnTick ==
  \/ OnTickCheckDirty
  \/ OnTickLock
  \/ OnTickRecheck
  \/ OnTickClear
  \/ OnTickCopy
  \/ OnTickStoreClean
  \/ OnTickUnlock
  \/ OnTickDeliver

\* A call after its entry, step by step.
InCall(th) ==
  \/ LockGuard(th)
  \/ AddWindowApi(th)
  \/ RemoveWindowApi(th)
  \/ ClearWindows(th)
  \/ HasWindowApi(th)
  \/ GetWindowCount(th)
  \/ StoreDirty(th)
  \/ Unlock(th)

\* The engines Initialize is given.
Engines == <<"engine1", "engine2">>

\* The calls the threads make.
SchedulerCalls ==
  {<<"AddWindowApi", w>> : w \in Members(Consumers) \cup {NullApi}}
    \cup {<<"RemoveWindowApi", w>> : w \in Members(Consumers) \cup {NullApi}}
    \cup {<<"ClearWindows", NullApi>>, <<"HasWindowApi", Consumers[1]>>,
          <<"GetWindowCount", NullApi>>}

\* Time between two readings of the performance counter, in ms.
Gaps == {kDefaultDeltaMs}
GapsSeq == {0, 1, kDefaultDeltaMs, kMaxDeltaMs, kMaxDeltaMs + 1, 250}

\* The scheduler of an application whose window exists.
InitTimer == Init /\ hwnd = TRUE

\* Two threads call into the scheduler while the timer thread ticks.
NextTimer ==
  \/ /\ init_calls = 0
     /\ \E queue_ok, timer_ok \in BOOLEAN :
          Initialize(Engines[1], queue_ok, timer_ok)
  \/ /\ calls_made < MaxCalls
     /\ \E th \in {MainThread, WorkerThread} : \E c \in SchedulerCalls :
          EnterCall(th, c[1], c[2])
  \/ \E th \in {MainThread, WorkerThread} : InCall(th)
  \/ /\ tick.n < MaxTicks
     /\ \E gap \in Gaps : TimerCallback(gap)
  \/ OnTick

SpecTimer == InitTimer /\ [][NextTimer]_vars

\* One thread calls into the scheduler, between ticks at every distance.
NextTick ==
  \/ /\ init_calls = 0
     /\ \E queue_ok, timer_ok \in BOOLEAN :
          Initialize(Engines[1], queue_ok, timer_ok)
  \/ /\ calls_made < MaxCallsSeq
     /\ tick.pc = "idle"
     /\ \E c \in SchedulerCalls : EnterCall(MainThread, c[1], c[2])
  \/ InCall(MainThread)
  \/ /\ tick.n < MaxTicksSeq
     /\ caller[MainThread].pc = "idle"
     /\ \E gap \in GapsSeq : TimerCallback(gap)
  \/ OnTick

SpecTick == InitTimer /\ [][NextTick]_vars

\* The performance counter advances between two calls.
SchedulerClock(gap) ==
  /\ clock_ms' = clock_ms + gap
  /\ UNCHANGED <<windowApis_, windowApis_cache_, windowApis_dirty_,
                 windowApis_mutex_, timer_running_, initialized_,
                 last_tick_time_ms_, caller, tick, published, dirty_by,
                 calls_made>>
  /\ UNCHANGED init_vars
  /\ UNCHANGED window_vars

\* Initialize is called again and again, with either engine and with the
\* timer infrastructure failing or not, around registrations and ticks.
NextInit ==
  \/ /\ init_calls < MaxInits
     /\ tick.pc = "idle"
     /\ \E engine \in Members(Engines) : \E queue_ok, timer_ok \in BOOLEAN :
          Initialize(engine, queue_ok, timer_ok)
  \/ /\ calls_made < MaxCallsInit
     /\ tick.pc = "idle"
     /\ \E c \in SchedulerCalls : EnterCall(MainThread, c[1], c[2])
  \/ InCall(MainThread)
  \/ /\ tick.n < MaxTicksInit
     /\ caller[MainThread].pc = "idle"
     /\ TimerCallback(0)
  \/ OnTick
  \/ /\ clock_ms < MaxClockMs
     /\ tick.pc = "idle"
     /\ caller[MainThread].pc = "idle"
     /\ SchedulerClock(kDefaultDeltaMs)

SpecInit == InitTimer /\ [][NextInit]_vars

\* ================================================================= claims
ActiveWith(properties) ==
  {k \in DOMAIN active_animations_ :
     /\ active_animations_[k].is_active
     /\ active_animations_[k].property \in properties}

\* C1: after any sequence of StartAnimation, StopAnimation, StopAllAnimations
\* and timer ticks, the registry holds at most one active animation writing
\* the window origin (Position or Bounds), at most one writing the extent
\* (Size or Bounds) and at most one Opacity animation.
C1_OnePerConflictClass ==
  /\ Cardinality(ActiveWith({"kPosition", "kBounds"})) <= 1
  /\ Cardinality(ActiveWith({"kSize", "kBounds"})) <= 1
  /\ Cardinality(ActiveWith({"kOpacity"})) <= 1

\* C1 witness: three animations run side by side, one per class, the third
\* just started.
C1_Witness ==
  /\ last_op = [op |-> "StartAnimation", ret |-> 1002]
  /\ Cardinality(ActiveWith({"kPosition"})) = 1
  /\ Cardinality(ActiveWith({"kSize"})) = 1
  /\ Cardinality(ActiveWith({"kOpacity"})) = 1

\* The conflict table as C2 states it.
C2_Table(new_property) ==
  CASE new_property = "kPosition" -> {"kPosition", "kBounds"}
    [] new_property = "kSize" -> {"kSize", "kBounds"}
    [] new_property = "kBounds" -> {"kPosition", "kSize", "kBounds"}
    [] new_property = "kOpacity" -> {"kOpacity"}

\* A step that is a StartAnimation call returning an identifier.
StartedNow == last_op' # last_op /\ last_op'.op = "StartAnimation" /\ last_op'.ret # 0

\* C2: a successful StartAnimation removes every record whose property
\* conflicts with the new one and leaves every other record in the registry,
\* active and with unchanged fields.
C2_EvictsExactlyConflicts ==
  [][StartedNow =>
       LET new == active_animations_'[last_op'.ret].property
       IN \A k \in DOMAIN active_animations_ :
            LET conflicting == active_animations_[k].property \in C2_Table(new)
            IN /\ (conflicting /\ active_animations_[k].is_active) =>
                    k \notin DOMAIN active_animations_' /\ k \notin timers'
               /\ ~conflicting =>
                    /\ k \in DOMAIN active_animations_'
                    /\ active_animations_'[k] = active_animations_[k]
                    /\ active_animations_'[k].is_active]_vars

\* C2 witness: Bounds was just started, it evicted an earlier animation and an
\* Opacity animation is still there.
C2_Witness ==
  /\ last_op.op = "StartAnimation" /\ last_op.ret \in DOMAIN active_animations_
  /\ active_animations_[last_op.ret].property = "kBounds"
  /\ removed # {}
  /\ ActiveWith({"kOpacity"}) # {}

\* C3: the completion callback of an identifier is invoked at most once, and
\* never for an animation that was removed by StopAnimation, StopAllAnimations
\* or eviction before it completed.
C3_CallbackAtMostOnce ==
  \A k \in AllIds : fired[k] <= 1 /\ (k \in removed => fired[k] = 0)

\* C3 witness: one animation completed and its callback ran, another one was
\* removed while active.
C3_Witness ==
  /\ \E k \in AllIds : fired[k] = 1
  /\ \E k \in removed : fired[k] = 0

\* C9: identifiers returned by successful StartAnimation calls are strictly
\* increasing, start at 1000, are never 0 and never repeat an earlier one.
C9_FreshIdentifiers ==
  /\ \A i \in 1 .. Len(returned) : returned[i] # 0
  /\ Len(returned) > 0 => returned[1] = 1000
  /\ \A i, j \in 1 .. Len(returned) : i < j => returned[i] < returned[j]
  /\ DOMAIN active_animations_ \subseteq {returned[i] : i \in 1 .. Len(returned)}

\* C9 witness: three identifiers were returned, the first two animations are
\* gone (one stopped, one completed).
C9_Witness ==
  /\ Len(returned) = 3
  /\ removed # {}
  /\ \E k \in AllIds : fired[k] = 1
  /\ DOMAIN active_animations_ = {returned[3]}

\* C10: StopAnimation(id) removes the record with that identifier and its
\* timer and leaves all other records unchanged; for an identifier that is not
\* in the registry it changes nothing; a second call leaves the state the
\* first one left.
C10_StopAnimation ==
  [][\A id \in CallerIds :
       DoStopAnimation(id) =>
         /\ DOMAIN active_animations_' = DOMAIN active_animations_ \ {id}
         /\ \A k \in DOMAIN active_animations_' :
              active_animations_'[k] = active_animations_[k]
         /\ timers' = timers \ {id}
         /\ UNCHANGED <<next_timer_id_, spring_damping_, spring_stiffness_,
                        rect, layered, alpha, last_call, fired, returned>>
         /\ id \notin DOMAIN active_animations_ =>
              UNCHANGED <<active_animations_, timers, removed>>
         /\ StopAnimation(StopAnimation(Cur, id), id) = StopAnimation(Cur, id)]_vars

\* C10 witness: StopAnimation erased a record and another record is still
\* running.
C10_Witness ==
  /\ last_op = [op |-> "StopAnimation", ret |-> 1]
  /\ active_animations_ # <<>>
  /\ DOMAIN active_animations_ = timers

\* C4: with timer ticks delivered fairly, an advancing clock and a valid
\* window handle, every started animation that is never stopped or evicted
\* eventually completes: its completion callback fires and its record leaves
\* the registry.  An animation that was removed, as the first of two Opacity
\* animations started back to back is, never has its callback fired, so of
\* the two only the second one's fires.
C4_EventuallyCompletes ==
  \A id \in LiveIds :
    /\ (id \in DOMAIN active_animations_)
         ~> (id \in removed \/ (fired[id] = 1 /\ id \notin DOMAIN active_animations_))
    /\ [](id \in removed => fired[id] = 0)

\* C4 witness: two Opacity animations were started back to back at the same
\* instant; the first is gone without its callback, the second completed and
\* its callback fired.
C4_Witness ==
  /\ returned = <<1000, 1001>>
  /\ removed = {1000}
  /\ fired[1000] = 0 /\ fired[1001] = 1
  /\ last_call.fn = "SetLayeredWindowAttributes"
  /\ cb_view.id = 1001
  /\ layered /\ rect = [left |-> 6, top |-> 12, right |-> 36, bottom |-> 30]
  /\ active_animations_ = <<>>

\* The placement call that puts the window exactly at a record's target.
C5_TargetCall(anim) ==
  LET phys(v) == Trunc(v * anim.scale_factor, LogDen * USER_DEFAULT_SCREEN_DPI)
      x == phys(anim.target_x) - anim.shadow_left
      y == phys(anim.target_y) - anim.shadow_top
      w == phys(anim.target_width) + anim.shadow_left + anim.shadow_right
      h == phys(anim.target_height) + anim.shadow_top + anim.shadow_bottom
  IN CASE anim.property = "kPosition" ->
            [fn |-> "SetWindowPos", x |-> x, y |-> y, w |-> 0, h |-> 0,
             flags |-> {"SWP_NOSIZE"}]
       [] anim.property = "kSize" ->
            [fn |-> "SetWindowPos", x |-> 0, y |-> 0, w |-> w, h |-> h,
             flags |-> {"SWP_NOMOVE"}]
       [] anim.property = "kBounds" ->
            [fn |-> "SetWindowPos", x |-> x, y |-> y, w |-> w, h |-> h,
             flags |-> {}]
       [] anim.property = "kOpacity" ->
            [fn |-> "SetLayeredWindowAttributes",
             x |-> (anim.target_opacity * 255) \div OpDen, y |-> 0, w |-> 0,
             h |-> 0, flags |-> {"LWA_ALPHA"}]

\* C5: a tick for an active animation whose elapsed time is greater than or
\* equal to its duration (equal included) applies exactly the target value
\* whatever the easing kind, deactivates the record, kills its timer, and the
\* record is absent from the registry once OnTimer returns.
C5_CompletionTick ==
  [][\A id \in CallerIds :
       (/\ DoOnTimer(id)
        /\ ~crashed'
        /\ id \in DOMAIN active_animations_
        /\ active_animations_[id].is_active
        /\ now - active_animations_[id].start_time_qpc
             >= active_animations_[id].duration)
       => /\ last_call' = C5_TargetCall(active_animations_[id])
          /\ id \notin timers'
          /\ id \notin DOMAIN active_animations_'
          /\ active_animations_[id].on_complete.op # "null" =>
               /\ cb_view'.id = id
               /\ ~cb_view'.is_active
               /\ ~cb_view'.armed
               /\ cb_view'.call = C5_TargetCall(active_animations_[id])]_vars

\* C5 witness: the tick arrived when the elapsed time equalled the duration
\* of an Overshoot opacity animation; the window is at the target alpha, the
\* record is gone, the callback ran.
C5_Witness ==
  /\ last_op = [op |-> "OnTimer", ret |-> 1]
  /\ now = 3
  /\ returned = <<1000>>
  /\ fired[1000] = 1
  /\ last_call.fn = "SetLayeredWindowAttributes" /\ last_call.x = 0
  /\ active_animations_ = <<>>
  /\ timers = {}

\* C6 (as stated): a completion callback may call StopAnimation on any
\* identifier, the completing one included, StopAllAnimations or
\* StartAnimation: OnTimer never touches a record that was already removed
\* and removes the completed record exactly once.
C6_CallbackReentrySafe == ~dangling_read /\ ~crashed

\* C7 (as stated): when the completion callback runs, the final frame has
\* been applied, the active flag is cleared, the timer is killed and the
\* record is no longer present in the registry.
C7_SettledBeforeCallback ==
  cb_view.id # 0 =>
    /\ cb_view.progress = <<1, 1>>
    /\ ~cb_view.is_active
    /\ ~cb_view.armed
    /\ ~cb_view.present

\* C8: StartAnimation on a WindowApi whose window reference or window handle
\* is null returns 0 and changes nothing: no animation is evicted, no
\* identifier is consumed, the stored spring parameters stay as they are even
\* when the request carries use_custom_spring, no timer is armed.  The second
\* conjunct puts the same call to the current object with its handle taken
\* away, so that there are animations to evict.
C8_NullWindowStart ==
  [][/\ (last_op'.op = "StartAnimation" /\ now' = now /\ (~window_ \/ ~hwnd)) =>
          /\ last_op'.ret = 0
          /\ UNCHANGED <<active_animations_, next_timer_id_, spring_damping_,
                         spring_stiffness_, timers, rect, layered, alpha,
                         last_call, fired, removed, returned>>
     /\ \A c \in Calls \cup Answered({CustomSpringRequest}) :
          \A gone \in {[Cur EXCEPT !.hwnd = FALSE], [Cur EXCEPT !.window_ = FALSE]} :
            StartAnimation(gone, c[1], c[2], now) = [S |-> gone, ret |-> 0]]_vars

\* C8 witness: StartAnimation returned 0 on a WindowApi whose window exists
\* and has no handle.
C8_Witness ==
  /\ last_op = [op |-> "StartAnimation", ret |-> 0]
  /\ window_ /\ ~hwnd
  /\ next_timer_id_ = 1000 /\ timers = {}
  /\ spring_damping_ = 7 /\ spring_stiffness_ = 100


\* C11: after StopAllAnimations returns, from whatever state it was called,
\* the registry is empty, no animation timer of the window is armed,
\* HasActiveAnimation returns false, and the call invoked no completion
\* callback.  The last conjunct is the call made by a completion callback:
\* the object as UpdateAnimation leaves it right after that call.
C11_StopAllAnimations ==
  [][/\ DoStopAllAnimations =>
          /\ active_animations_' = <<>>
          /\ timers' = {}
          /\ ~HasActiveAnimation(Cur)'
          /\ fired' = fired
     /\ \A id \in DOMAIN active_animations_ :
          (/\ active_animations_[id].on_complete = StopAllCallback
           /\ now - active_animations_[id].start_time_qpc
                >= active_animations_[id].duration)
          => LET U == UpdateAnimation(Cur, id, now)
             IN /\ U.anims = <<>>
                /\ U.timers = {}
                /\ ~HasActiveAnimation(U)
                /\ U.fired = [fired EXCEPT ![id] = 1]]_vars

\* C11 witness: StopAllAnimations erased two running animations.
C11_Witness ==
  /\ last_op = [op |-> "StopAllAnimations", ret |-> 2]
  /\ active_animations_ = <<>>
  /\ timers = {}
  /\ Cardinality(removed) = 2
  /\ \A k \in AllIds : fired[k] = 0

\* Identifiers returned by StartAnimation whose animation has since neither
\* completed (its callback has not run) nor been stopped or evicted.
C12_Running ==
  {returned[i] : i \in 1 .. Len(returned)}
    \ (removed \cup {k \in AllIds : fired[k] > 0})

\* C12: in every state between operations HasActiveAnimation returns true
\* exactly when some animation was started successfully and has since neither
\* completed nor been stopped or evicted.
C12_HasActiveAnimation == HasActiveAnimation(Cur) <=> (C12_Running # {})

\* C12 witness: one animation completed, one was stopped, the third is still
\* running.
C12_Witness ==
  /\ Len(returned) = 3
  /\ removed # {}
  /\ \E k \in AllIds : fired[k] = 1
  /\ Cardinality(C12_Running) = 1
  /\ HasActiveAnimation(Cur)

\* C13: SetSpringParameters(damping, stiffness) stores damping clamped to
\* [0.1, 2.0] and stiffness clamped to [10, 500]: a value inside the range is
\* stored unchanged, a value below as the lower bound, a value above as the
\* upper bound (damping is counted in tenths).
C13_SetSpringParametersClamps ==
  [][\A in \in SpringInputs :
       DoSetSpringParameters(in[1], in[2]) =>
         /\ spring_damping_' =
              (IF in[1] < 1 THEN 1 ELSE IF in[1] > 20 THEN 20 ELSE in[1])
         /\ spring_stiffness_' =
              (IF in[2] < 10 THEN 10 ELSE IF in[2] > 500 THEN 500 ELSE in[2])
         /\ UNCHANGED <<active_animations_, timers, next_timer_id_>>]_vars

\* C13 witness: SetSpringParameters stored the lower bounds while an
\* animation was running.
C13_Witness ==
  /\ last_op.op = "SetSpringParameters"
  /\ spring_damping_ = 1 /\ spring_stiffness_ = 10
  /\ active_animations_ # <<>>

\* C14 (as stated): a SpringBounce animation in flight is eased with the
\* damping and stiffness captured in its record when it started, whatever
\* SetSpringParameters or later StartAnimation calls with custom spring
\* values do: every tick before completion places the window at the frame
\* computed from the record's own parameters.
C14_InFlightKeepsCapturedSpring ==
  [][\A id \in CallerIds :
       (/\ DoOnTimer(id)
        /\ id \in DOMAIN active_animations_
        /\ active_animations_[id].is_active
        /\ active_animations_[id].easing = "kSpringBounce"
        /\ now - active_animations_[id].start_time_qpc
             < active_animations_[id].duration)
       => LET anim == active_animations_[id]
              p == <<now - anim.start_time_qpc, anim.duration>>
              eased == CalculateSpringBounce(p, anim.spring_damping,
                                             anim.spring_stiffness)
          IN last_call' = ApplyAnimationFrame(Cur, anim, eased).call]_vars

\* What a record holds from StartAnimation on.
C15_Captured(anim) ==
  <<anim.scale_factor, anim.shadow_left, anim.shadow_right, anim.shadow_top,
    anim.shadow_bottom, anim.start_x, anim.start_y, anim.start_width,
    anim.start_height, anim.start_opacity, anim.target_x, anim.target_y,
    anim.target_width, anim.target_height, anim.target_opacity, anim.duration>>

\* The placement call of a frame at eased progress ep, from the record alone.
C15_Frame(anim, ep) ==
  LET x == Physical(anim.start_x, anim.target_x, ep, anim.scale_factor)
             - anim.shadow_left
      y == Physical(anim.start_y, anim.target_y, ep, anim.scale_factor)
             - anim.shadow_top
      w == Physical(anim.start_width, anim.target_width, ep, anim.scale_factor)
             + anim.shadow_left + anim.shadow_right
      h == Physical(anim.start_height, anim.target_height, ep, anim.scale_factor)
             + anim.shadow_top + anim.shadow_bottom
  IN CASE anim.property = "kPosition" ->
            [fn |-> "SetWindowPos", x |-> x, y |-> y, w |-> 0, h |-> 0,
             flags |-> {"SWP_NOSIZE"}]
       [] anim.property = "kSize" ->
            [fn |-> "SetWindowPos", x |-> 0, y |-> 0, w |-> w, h |-> h,
             flags |-> {"SWP_NOMOVE"}]
       [] anim.property = "kBounds" ->
            [fn |-> "SetWindowPos", x |-> x, y |-> y, w |-> w, h |-> h,
             flags |-> {}]
       [] anim.property = "kOpacity" ->
            [fn |-> "SetLayeredWindowAttributes",
             x |-> AlphaByte(anim.start_opacity * ep[2]
                               + (anim.target_opacity - anim.start_opacity) * ep[1],
                             ep[2]),
             y |-> 0, w |-> 0, h |-> 0, flags |-> {"LWA_ALPHA"}]

\* C15: a tick leaves the scale factor, the four shadow insets, the start
\* values, the target values and the duration of every record it does not
\* remove as StartAnimation stored them, and the frame it applies is the one
\* these captured values give (linear easing), whatever the window's DPI and
\* frame rectangle have become since.
C15_CapturedValuesHeld ==
  [][\A id \in CallerIds :
       (/\ DoOnTimer(id)
        /\ id \in DOMAIN active_animations_
        /\ active_animations_[id].is_active)
       => LET anim == active_animations_[id]
              elapsed == now - anim.start_time_qpc
              ep == IF elapsed >= anim.duration THEN <<1, 1>>
                    ELSE <<elapsed, anim.duration>>
          IN /\ last_call' = C15_Frame(anim, ep)
             /\ \A k \in DOMAIN active_animations_' :
                   /\ k \in DOMAIN active_animations_
                   /\ C15_Captured(active_animations_'[k])
                        = C15_Captured(active_animations_[k])]_vars

\* A frame of a move was applied after both the DPI and the frame rectangle
\* of the window had left the values the record captured.
C15_Witness ==
  /\ last_op = [op |-> "OnTimer", ret |-> 1]
  /\ last_call.fn = "SetWindowPos"
  /\ \E k \in DOMAIN active_animations_ :
       /\ active_animations_[k].is_active
       /\ active_animations_[k].property = "kBounds"
       /\ active_animations_[k].progress[1] > 0
       /\ active_animations_[k].scale_factor # dpi
       /\ active_animations_[k].shadow_left # shadow
       /\ last_call = C15_Frame(active_animations_[k], active_animations_[k].progress)

\* C16 (as stated): every tick a consumer receives is executed on the
\* application's single logical thread; the timer thread posts the delivery
\* and never calls into a consumer itself.
C16_DeliveredOnMainThread ==
  \A k \in DOMAIN tick.delivered : tick.delivered[k].thread = MainThread

Registrations == {"AddWindowApi", "RemoveWindowApi", "ClearWindows"}

\* A thread is inside its critical section.
C17_Holds(th) == caller[th].pc \in {"body", "store", "unlock"}

C17_NoRace ==
  \* the registry is not read for a rebuild while a caller is changing it
  /\ ~(/\ tick.pc = "copy"
       /\ \E th \in DOMAIN caller :
            caller[th].pc = "body" /\ caller[th].op \in Registrations)
  \* nor by any two threads inside the critical section at once
  /\ \A th \in DOMAIN caller : C17_Holds(th) => windowApis_mutex_ = th
  /\ tick.pc \in {"recheck", "clear", "copy", "clean", "unlock"}
       => windowApis_mutex_ = TimerThread

C17_SnapshotWrite ==
  windowApis_cache_' # windowApis_cache_
    => /\ windowApis_mutex_ = TimerThread
       /\ tick.pc \in {"clear", "copy"}
       /\ tick'.i = 0
       /\ windowApis_' = windowApis_

\* C17: under every interleaving of AddWindowApi, RemoveWindowApi,
\* ClearWindows, HasWindowApi, GetWindowCount and OnTick, the registry is
\* never read for a rebuild while another thread is changing it, and the
\* snapshot changes only in a step of OnTick that holds the mutex, before
\* the iteration of that tick has begun.
C17_SnapshotSerialized == []C17_NoRace /\ [][C17_SnapshotWrite]_vars

\* OnTick copies the registry while both callers wait for the mutex.
C17_Witness ==
  /\ tick.pc = "copy"
  /\ windowApis_ # {}
  /\ \A th \in DOMAIN caller :
       caller[th].pc = "lock" /\ caller[th].op \in Registrations

C18_Delivered == {tick.delivered[k].consumer : k \in DOMAIN tick.delivered}

C18_TickDone ==
  (tick.pc = "idle" /\ tick.n > 0)
    => /\ [k \in DOMAIN tick.delivered |-> tick.delivered[k].consumer]
            = InOrder(tick.source)
       /\ tick.always_in \subseteq C18_Delivered
       /\ C18_Delivered \subseteq tick.ever_in

C18_Returns ==
  \A th \in DOMAIN caller :
    (Unlock(th) /\ caller[th].op \in Registrations) => windowApis_dirty_'

\* C18: AddWindowApi and RemoveWindowApi of a non-null consumer, and
\* ClearWindows, return with the dirty flag set; a tick rebuilds the snapshot
\* at most once and delivers to exactly the consumers registered when the
\* snapshot was rebuilt, each once: a consumer whose registration had
\* returned before the tick started and that stayed registered receives the
\* tick, and a consumer not registered at any time since the tick started
\* receives nothing.
C18_DirtyThenRebuilt ==
  /\ [][C18_Returns]_vars
  /\ [](tick.rebuilds <= 1)
  /\ []C18_TickDone

\* The second tick rebuilt the snapshot and left out the consumer that had
\* been removed since the first.
C18_Witness ==
  /\ tick.pc = "idle" /\ tick.n = 2 /\ tick.rebuilds = 1
  /\ C18_Delivered = {Consumers[2]}
  /\ Consumers[1] \notin tick.ever_in
  /\ \E th \in DOMAIN caller :
       caller[th] = [pc |-> "idle", op |-> "RemoveWindowApi",
                     arg |-> Consumers[1], ret |-> 0]

C19_Delta ==
  \A gap \in GapsSeq :
    TimerCallback(gap)
      => /\ tick'.gap = gap
         /\ tick'.delta_ms = IF gap <= 100 THEN gap ELSE 16
         /\ last_tick_time_ms_' = clock_ms'
         /\ last_tick_time_ms_ = clock_ms

\* C19: the delta of a tick is the time since the previous tick when that is
\* at most 100 ms and 16 ms when it is more (250 ms gives 16 ms); every tick
\* stores its own time as the previous-tick time, so the next delta is
\* measured from it; and the consumers receive this delta.
C19_ElapsedDelta ==
  /\ [][C19_Delta]_vars
  /\ [](\A k \in DOMAIN tick.delivered :
          tick.delivered[k].delta_ms = tick.delta_ms)

\* The tick that follows a 250 ms stall by 100 ms delivers 100 ms.
C19_Witness ==
  /\ tick.n = 2 /\ clock_ms = 250 + 100 /\ tick.gap = 100
  /\ tick.delta_ms = 100
  /\ tick.delivered # <<>>

C20_Check ==
  OnTickCheckDirty
    => tick'.pc = IF dirty_by = "OnTick" THEN "deliver" ELSE "lock"

C21_Settled == <<engine_, last_tick_time_ms_, timer_queue_, timer_,
                 timer_running_, initialized_, timers_created>>

\* C21: once Initialize has set initialized_, a later Initialize, with the
\* same or another engine, leaves the engine handle, the last-tick time, the
\* timer queue, the timer and the flags as they are; and however many times
\* Initialize is called, at most one timer is created.
C21_InitializeIdempotent ==
  /\ [][\A engine \in Members(Engines) : \A queue_ok, timer_ok \in BOOLEAN :
          (Initialize(engine, queue_ok, timer_ok) /\ initialized_)
            => C21_Settled' = C21_Settled]_vars
  /\ [](timers_created <= 1)

\* Initialize was called with the other engine, at a later time, on a
\* scheduler that was already initialized.
C21_Witness ==
  /\ init_result = "already"
  /\ timers_created = 1
  /\ engine_ = Engines[2]
  /\ clock_ms > last_tick_time_ms_

\* C22 (as stated): when CreateTimerQueue or CreateTimerQueueTimer fails in
\* Initialize, the scheduler stays uninitialized, AddWindowApi still records
\* the consumer, and no consumer receives a tick.
C22_FailureLeavesUninitialized ==
  /\ [](init_result \in {"no queue", "no timer"} => ~initialized_)
  /\ [][\A th \in DOMAIN caller :
          (AddWindowApi(th) /\ ~timer_running_)
            => caller[th].arg \in windowApis_']_vars
  /\ [](~timer_running_ => tick.delivered = <<>>)

\* C23 (as stated): adding a window starts the timer when it is not
\* running, and the timer is not running whenever RemoveWindowApi or
\* ClearWindows has left the registry empty.
C23_TimerFollowsRegistry ==
  [][\A th \in DOMAIN caller :
       /\ (Unlock(th) /\ caller[th].op = "AddWindowApi") => timer_running_'
       /\ (Unlock(th) /\ caller[th].op \in {"RemoveWindowApi", "ClearWindows"}
             /\ windowApis_ = {}) => ~timer_running_']_vars

\* C30: OnTimer returns true exactly when the identifier is a key of the
\* registry when it is called; for any other identifier it returns false and
\* changes nothing: no frame is applied, no callback runs, no record, timer
\* or window attribute changes.
C30_OnTimerUnknownId ==
  [][\A id \in CallerIds :
       DoOnTimer(id)
         => /\ (last_op'.ret = 1) <=> (id \in DOMAIN active_animations_)
            /\ id \notin DOMAIN active_animations_
                 => UNCHANGED <<active_animations_, next_timer_id_,
                                spring_damping_, spring_stiffness_, timers,
                                rect, layered, alpha, last_call, fired,
                                removed, returned, cb_view, dangling_read,
                                crashed>>]_vars

\* A late WM_TIMER, after every animation that was started has been stopped
\* or has completed, was turned away.
C30_Witness ==
  /\ last_op = [op |-> "OnTimer", ret |-> 0]
  /\ returned # <<>>
  /\ removed # {}
  /\ active_animations_ = <<>>

C29_Tick(id) ==
  LET anim == active_animations_[id]
      e == now - anim.start_time_qpc
      d == anim.duration
  IN IF e < d
       THEN /\ last_call' =
                 [fn |-> "SetWindowPos",
                  x |-> Trunc(anim.start_x * d + (anim.target_x - anim.start_x) * e,
                              LogDen * d),
                  y |-> Trunc(anim.start_y * d + (anim.target_y - anim.start_y) * e,
                              LogDen * d),
                  w |-> 0, h |-> 0, flags |-> {"SWP_NOSIZE"}]
            /\ fired' = fired
            /\ id \in DOMAIN active_animations_'
       ELSE /\ last_call' =
                 [fn |-> "SetWindowPos", x |-> Trunc(anim.target_x, LogDen),
                  y |-> Trunc(anim.target_y, LogDen),
                  w |-> 0, h |-> 0, flags |-> {"SWP_NOSIZE"}]
            /\ fired[id] = 0
            /\ fired' = [fired EXCEPT ![id] = 1]
            /\ id \notin DOMAIN active_animations_'

\* C29: for a Linear Position animation with scale factor 1 and no shadow
\* insets, a tick at elapsed e < duration moves the window, without
\* resizing, to start + (target - start) * e / duration truncated per axis
\* and invokes no callback; the first tick at e >= duration moves it to the
\* target itself and invokes the completion callback, once.
C29_LinearPosition ==
  [][\A id \in CallerIds :
       (/\ DoOnTimer(id)
        /\ id \in DOMAIN active_animations_
        /\ active_animations_[id].is_active
        /\ active_animations_[id].scale_factor = USER_DEFAULT_SCREEN_DPI
        /\ active_animations_[id].shadow_left = 0
        /\ active_animations_[id].shadow_top = 0)
       => C29_Tick(id)]_vars

\* The animation from (0, 0) to (100, 100) in 300 ms is halfway: the tick at
\* 150 ms has put the window at (50, 50).
C29_Witness ==
  /\ last_op = [op |-> "OnTimer", ret |-> 1]
  /\ \E id \in DOMAIN active_animations_ :
       /\ active_animations_[id].start_x = 0
       /\ active_animations_[id].start_y = 0
       /\ active_animations_[id].target_x = 100 * LogDen
       /\ active_animations_[id].duration = 300
       /\ active_animations_[id].scale_factor = USER_DEFAULT_SCREEN_DPI
       /\ active_animations_[id].progress = <<150, 300>>
       /\ now = active_animations_[id].start_time_qpc + 150
  /\ rect.left = 50 /\ rect.top = 50
  /\ shadow = 0

\* C24 (the part that holds): with a null window_ or a null window handle no
\* operation places the window, changes its opacity, registers an animation,
\* arms a timer, opens a drag session or shows the window, and StartAnimation,
\* GetPosition and GetBounds return zero.
C24_Degrades ==
  ~WindowHandle(Cur) =>
    /\ last_call = NoCall
    /\ alpha = -1 /\ ~layered
    /\ active_animations_ = <<>> /\ timers = {}
    /\ ~is_dragging_
    /\ show_cmd = SW_HIDE
    /\ (last_op.op = "StartAnimation" => last_op.ret = 0)
    /\ (last_op.op = "GetPosition" => last_op.ret = [x |-> 0, y |-> 0])
    /\ (last_op.op = "GetBounds"
          => last_op.ret = [x |-> 0, y |-> 0, width |-> 0, height |-> 0])

\* C24: for a WindowApi whose window_ is null or whose window handle is null,
\* every public operation is a no-op or returns zero, issues no placement
\* call, and never dereferences the null window_.
C24_NullWindowDegrades ==
  /\ C24_Degrades
  /\ (~WindowHandle(Cur) => ~null_deref)

\* A step that is a call DragWindow(state).
C25_Call(state) ==
  /\ api_calls' = api_calls + 1
  /\ last_op'.op = "DragWindow"
  /\ last_arg' = state

\* What a DragWindow call can touch besides the window's rectangle and the
\* last placement call.
C25_Rest == <<is_dragging_, drag_start_cursor_pos_, drag_start_window_pos_,
              active_animations_, timers, layered, alpha, cursor, show_cmd>>

C25_Update ==
  C25_Call(1) =>
    IF is_dragging_
      THEN LET new_x == drag_start_window_pos_.x
                          + (cursor.x - drag_start_cursor_pos_.x)
               new_y == drag_start_window_pos_.y
                          + (cursor.y - drag_start_cursor_pos_.y)
           IN /\ last_call' = [fn |-> "SetWindowPos", x |-> new_x, y |-> new_y,
                               w |-> 0, h |-> 0, flags |-> {"SWP_NOSIZE"}]
              /\ rect' = [left |-> new_x, top |-> new_y,
                          right |-> new_x + (rect.right - rect.left),
                          bottom |-> new_y + (rect.bottom - rect.top)]
              /\ UNCHANGED C25_Rest
              /\ (last_op.op = "DragWindow" /\ last_arg = 1
                    => last_call' = last_call /\ rect' = rect)
      ELSE UNCHANGED <<rect, last_call>> /\ UNCHANGED C25_Rest

\* C25: while a drag session is active DragWindow(1) places the window at
\* drag_start_window_pos_ + (cursor - drag_start_cursor_pos_) with SWP_NOSIZE,
\* its extent kept, the session untouched, and a second update at the same
\* cursor position places it identically; without a session DragWindow(1)
\* issues no placement call and changes nothing.
C25_DragUpdate == [][C25_Update]_vars

\* A session was begun, the pointer moved, and the update moved the window.
C25_Witness ==
  /\ last_op.op = "DragWindow" /\ last_arg = 1
  /\ is_dragging_
  /\ cursor # drag_start_cursor_pos_
  /\ last_call.fn = "SetWindowPos"
  /\ rect.left = drag_start_window_pos_.x + (cursor.x - drag_start_cursor_pos_.x)
  /\ rect.left # drag_start_window_pos_.x

C26_End ==
  /\ (C25_Call(2) =>
        /\ ~is_dragging_'
        /\ UNCHANGED <<rect, last_call, drag_start_cursor_pos_,
                       drag_start_window_pos_, active_animations_, timers>>
        /\ (last_op.op = "DragWindow" /\ last_arg = 2
              => UNCHANGED is_dragging_))
  /\ (~is_dragging_ /\ is_dragging_' => C25_Call(0))
  /\ (C25_Call(1) /\ ~is_dragging_ => UNCHANGED <<rect, last_call>>)

\* C26: DragWindow(2) leaves is_dragging_ false in whatever state it is
\* called and touches nothing else; only DragWindow(0) sets the flag again,
\* and a DragWindow(1) called while it is false moves nothing; a second
\* DragWindow(2) right after the first changes nothing.
C26_DragEnd == [][C26_End]_vars

\* A session was begun and ended, the pointer moved on, and the update that
\* followed left the window where it was.
C26_Witness ==
  /\ last_op.op = "DragWindow" /\ last_arg = 1
  /\ ~is_dragging_
  /\ hwnd
  /\ drag_start_cursor_pos_ # [x |-> 0, y |-> 0]
  /\ cursor # drag_start_cursor_pos_
  /\ last_call = NoCall

\* The SetWindowPos flags of the frames of a geometric animation.
C27_Flags(property) ==
  CASE property = "kPosition" -> {"SWP_NOSIZE"}
    [] property = "kSize" -> {"SWP_NOMOVE"}
    [] OTHER -> {}

\* The first tick of the animation just started, at the very reading of the
\* counter it was started at: its progress and eased progress are 0.
C27_TickAtStart(id) ==
  /\ last_op.op = "StartAnimation" /\ last_op.ret = id
  /\ id \in DOMAIN active_animations_
  /\ active_animations_[id].property \in {"kPosition", "kSize", "kBounds"}
  /\ active_animations_[id].duration > 0
  /\ active_animations_[id].start_time_qpc = now
  /\ last_op'.op = "OnTimer" /\ last_op'.ret = 1
  /\ last_call'.fn = "SetWindowPos"
  /\ last_call'.flags = C27_Flags(active_animations_[id].property)

C27_Reproduces ==
  \A id \in DOMAIN active_animations_ :
    C27_TickAtStart(id) =>
      LET property == active_animations_[id].property
      IN /\ property \in {"kPosition", "kBounds"}
              => last_call'.x = rect.left /\ last_call'.y = rect.top
         /\ property \in {"kSize", "kBounds"}
              => /\ last_call'.w = rect.right - rect.left
                 /\ last_call'.h = rect.bottom - rect.top
         /\ rect' = rect

\* C27: the frame at eased progress 0 of a Position, Size or Bounds animation
\* started while both queries succeed is placed at the origin and/or with the
\* extent of the raw window rectangle the window had when the animation
\* started, at any scale factor and with any insets.
C27_ProgressZeroRoundTrip == [][C27_Reproduces]_vars

\* A Bounds animation started on a window that an earlier animation had
\* moved, at another scale factor than 1, was ticked at its start and put the
\* window where it was.
C27_Witness ==
  /\ last_op.op = "OnTimer" /\ last_op.ret = 1
  /\ dpi # USER_DEFAULT_SCREEN_DPI
  /\ shadow # 0
  /\ rect.left # 6
  /\ \E id \in DOMAIN active_animations_ :
       /\ active_animations_[id].property = "kBounds"
       /\ active_animations_[id].start_time_qpc = now
       /\ active_animations_[id].progress[1] = 0
       /\ active_animations_[id].shadow_left # 0
  /\ last_call = [fn |-> "SetWindowPos", x |-> rect.left, y |-> rect.top,
                  w |-> rect.right - rect.left, h |-> rect.bottom - rect.top,
                  flags |-> {}]

\* The record StartAnimation would make for an animation of the property to
\* the target of the last immediate call, at the same scale factor and with
\* the insets the same queries give.
C28_Animation(property) ==
  LET sh == ShadowOffsets(Cur, last_arg.q)
      r == last_arg.request
  IN [WindowAnimation EXCEPT
        !.hwnd = TRUE, !.property = property, !.scale_factor = dpi,
        !.shadow_left = sh.left, !.shadow_right = sh.right,
        !.shadow_top = sh.top, !.shadow_bottom = sh.bottom,
        !.target_x = r.x, !.target_y = r.y,
        !.target_width = r.preferred_view_width,
        !.target_height = r.preferred_view_height]

\* The call its final frame, at eased progress 1, issues.
C28_FinalFrame(property) ==
  ApplyAnimationFrame(Cur, C28_Animation(property), <<1, 1>>).call

\* The alpha byte of the final frame of an Opacity animation to the opacity
\* of the last immediate call.
C28_FinalAlpha ==
  ApplyAnimationFrame(Cur, [WindowAnimation EXCEPT
                              !.hwnd = TRUE, !.property = "kOpacity",
                              !.target_opacity = last_arg],
                      <<1, 1>>).alpha

\* C28 (the part that holds): SetBounds and the Apply...Immediate helpers
\* issue the physical x, y, width, height or alpha byte of the final frame.
C28_HelpersAgree ==
  /\ last_op.op = "ApplyPositionImmediate" => last_call = C28_FinalFrame("kPosition")
  /\ last_op.op = "ApplySizeImmediate" => last_call = C28_FinalFrame("kSize")
  /\ last_op.op = "ApplyBoundsImmediate" => last_call = C28_FinalFrame("kBounds")
  /\ last_op.op = "ApplyOpacityImmediate" => alpha = C28_FinalAlpha
  /\ last_op.op = "SetBounds" =>
       /\ last_arg.request.has_pos
            => /\ last_call.x = C28_FinalFrame("kBounds").x
               /\ last_call.y = C28_FinalFrame("kBounds").y
       /\ last_arg.request.has_preferred_view_size
            => /\ last_call.w = C28_FinalFrame("kBounds").w
               /\ last_call.h = C28_FinalFrame("kBounds").h

\* C28: every immediate setter issues the same physical x, y, width, height
\* or alpha byte as the final frame (eased progress 1) of the animation to
\* the same target at the same scale factor and insets, SetOpacity included.
C28_JumpEqualsFinalFrame ==
  /\ C28_HelpersAgree
  /\ last_op.op = "SetOpacity" => alpha = C28_FinalAlpha

\* The record k is as it was: present or absent as before, and unchanged.
C31_Untouched(k) ==
  /\ (k \in DOMAIN active_animations_) <=> (k \in DOMAIN active_animations_')
  /\ k \in DOMAIN active_animations_ => active_animations_'[k] = active_animations_[k]

\* The record id was advanced once: it is gone, or it differs from what it
\* was in its progress and active flag only, its progress being the one of
\* the present reading of the counter.
C31_AdvancedOnce(id) ==
  /\ id \in DOMAIN active_animations_
  /\ id \in DOMAIN active_animations_' =>
       LET old == active_animations_[id]
           new == active_animations_'[id]
       IN /\ [new EXCEPT !.progress = old.progress, !.is_active = old.is_active] = old
          /\ new.progress \in {<<1, 1>>, <<now - old.start_time_qpc, old.duration>>}

C31_Tick ==
  last_op'.op = "OnTimer" =>
    \/ \A k \in AllIds : C31_Untouched(k)
    \/ \E id \in AllIds :
         /\ C31_AdvancedOnce(id)
         /\ \A k \in AllIds \ {id} : C31_Untouched(k)

\* C31: one processed tick OnTimer(id) advances the record id only, and once;
\* every other record of the registry keeps its progress, its active flag and
\* its presence (the completion callbacks here perform no registry operation).
C31_OneRecordPerTick == [][C31_Tick]_vars

\* Two animations run side by side, both started before the present reading
\* of the counter; the tick advanced one and left the other at progress 0.
C31_Witness ==
  /\ last_op.op = "OnTimer" /\ last_op.ret = 1
  /\ \E id, k \in DOMAIN active_animations_ :
       /\ id # k
       /\ active_animations_[id].progress[1] > 0
       /\ active_animations_[k].progress[1] = 0
       /\ active_animations_[k].start_time_qpc < now
       /\ active_animations_[k].is_active

\* The eased progress of the frame the tick of the record anim issues now.
C32_Eased(anim) ==
  IF now - anim.start_time_qpc >= anim.duration THEN <<1, 1>>
  ELSE CalculateEasing(Cur, <<now - anim.start_time_qpc, anim.duration>>,
                       anim.easing)

\* trunc(clamp(opacity, 0, 1) * 255) for the opacity the record has at the
\* eased progress ep, in exact arithmetic.
C32_Expected(anim, ep) ==
  LET num == anim.start_opacity * ep[2]
               + (anim.target_opacity - anim.start_opacity) * ep[1]
      one == OpDen * ep[2]
  IN IF num <= 0 THEN 0
     ELSE IF num >= one THEN 255
     ELSE num \div (one \div 255)   \* 255 * num / one

C32_Frame ==
  \A id \in DOMAIN active_animations_ :
    (/\ active_animations_[id].property = "kOpacity"
     /\ active_animations_[id].is_active
     /\ last_op'.op = "OnTimer" /\ last_op'.ret = 1 /\ now' = now
     /\ last_call'.fn = "SetLayeredWindowAttributes")
    => /\ last_call'.x \in 0 .. 255
       /\ last_call'.x = C32_Expected(active_animations_[id],
                                      C32_Eased(active_animations_[id]))
       /\ alpha' = last_call'.x

\* C32: every alpha issued by a frame of an Opacity animation is an integer in
\* 0..255, the truncation of clamp(interpolated opacity, 0, 1) * 255, for
\* targets inside and outside [0, 1] and for eased progress above 1; none
\* wraps around modulo 256.
C32_AlphaClamped == [][C32_Frame]_vars

\* A frame whose interpolated opacity lies above 1 (target 1.2, or an
\* overshoot) or below 0 was issued as 255 or 0.
C32_Witness ==
  /\ last_op.op = "OnTimer" /\ last_op.ret = 1
  /\ last_call.fn = "SetLayeredWindowAttributes"
  /\ \E id \in DOMAIN active_animations_ :
       LET anim == active_animations_[id]
           ep == C32_Eased(anim)
           num == anim.start_opacity * ep[2]
                    + (anim.target_opacity - anim.start_opacity) * ep[1]
       IN /\ anim.property = "kOpacity"
          /\ anim.progress = <<now - anim.start_time_qpc, anim.duration>>
          /\ \/ num > OpDen * ep[2] /\ alpha = 255
             \/ num < 0 /\ alpha = 0

\* The start positions a successful query can give a Position animation
\* started now: the frame's origin, the raw window rectangle's, or zero.
C33_Queried ==
  {<<ToLogical(FrameBounds(Cur).left, dpi), ToLogical(FrameBounds(Cur).top, dpi)>>,
   <<ToLogical(rect.left, dpi), ToLogical(rect.top, dpi)>>,
   <<0, 0>>}

C33_Start ==
  (StartedNow /\ active_animations_'[last_op'.ret].property = "kPosition")
    => <<active_animations_'[last_op'.ret].start_x,
         active_animations_'[last_op'.ret].start_y>> \in C33_Queried

\* C33: the start value of a Position animation is the visible frame's origin,
\* or, the frame query failing, the raw window rectangle's, or, both failing,
\* zero; it never comes from data that no successful query produced.
C33_StartFromSuccessfulQuery == [][C33_Start]_vars

\* The arguments t = n / d the easing is evaluated at: the grid inside
\* [0, 1], its two ends, and one argument on either side.
C34_Grid == {<<n, d>> : n \in -1 .. 5, d \in 2 .. 4}

C34_Zero(ep) == ep[1] = 0 /\ ep[2] > 0
C34_One(ep) == ep[1] = ep[2] /\ ep[2] > 0

\* C34: with the damping and stiffness the window holds, SpringBounce gives
\* exactly 0 for t <= 0, exactly 1 for t >= 1 and a value in [0, 1] between;
\* Linear, EaseIn, EaseOut and EaseInOut clamp t to [0, 1] first and give 0
\* at t = 0 and 1 at t = 1.
C34_EasingEnds ==
  \A p \in C34_Grid :
    /\ LET ep == CalculateEasing(Cur, p, "kSpringBounce")
       IN /\ p[1] <= 0 => C34_Zero(ep)
          /\ p[1] >= p[2] => C34_One(ep)
          /\ 0 <= ep[1] /\ ep[1] <= ep[2] /\ ep[2] > 0
    /\ \A easing \in {"kLinear", "kEaseIn", "kEaseOut", "kEaseInOut"} :
         LET ep == CalculateEasing(Cur, p, easing)
         IN /\ p[1] <= 0 => C34_Zero(ep)
            /\ p[1] >= p[2] => C34_One(ep)
            /\ 0 <= ep[1] /\ ep[1] <= ep[2]

\* A SpringBounce animation was ticked halfway while the window held spring
\* parameters a request had stored unclamped (stiffness 0), or parameters
\* for which the oscillator passes 1.
C34_Witness ==
  /\ last_op.op = "OnTimer" /\ last_op.ret = 1
  /\ \E id \in DOMAIN active_animations_ :
       /\ active_animations_[id].easing = "kSpringBounce"
       /\ active_animations_[id].progress = <<1, 2>>
  /\ \/ spring_stiffness_ = 0
     \/ SpringTable[<<1, 2, spring_damping_, spring_stiffness_>>] > SpringDen

\* C35 (as stated): whatever SetSpringParameters and StartAnimation calls
\* were made, the damping the window holds lies in [0.1, 2.0] (in tenths,
\* 1 .. 20) and the stiffness it holds lies in [10, 500], so the spring
\* formula is never evaluated with a zero or negative stiffness.
C35_SpringParametersInRange ==
  /\ kMinDamping <= spring_damping_ /\ spring_damping_ <= kMaxDamping
  /\ kMinStiffness <= spring_stiffness_ /\ spring_stiffness_ <= kMaxStiffness

\* C36: between operations on a window whose handle is valid, the armed
\* animation timers of the window are exactly the identifiers of the records
\* in its registry.
C36_TimersMatchRegistry ==
  (window_ /\ hwnd) => timers = DOMAIN active_animations_

\* C36 witness: the window has a valid handle, one animation completed on a
\* tick and its record is gone, another animation was removed by a stop or an
\* eviction, and a third is still in the registry with its timer armed.
C36_Witness ==
  /\ window_ /\ hwnd
  /\ last_op = [op |-> "OnTimer", ret |-> 1]
  /\ \E done \in DOMAIN fired :
       /\ fired[done] = 1
       /\ done \notin DOMAIN active_animations_ /\ done \notin timers
  /\ removed # {}
  /\ active_animations_ # <<>>
  /\ timers = DOMAIN active_animations_

\* C37: whenever the dirty flag is false and no thread holds the registry
\* mutex, the cached snapshot holds exactly the consumers of the registry
\* set, each once.
C37_CleanCacheIsRegistry ==
  (~windowApis_dirty_ /\ windowApis_mutex_ = "free") =>
    /\ Members(windowApis_cache_) = windowApis_
    /\ Len(windowApis_cache_) = Cardinality(windowApis_)

\* C37 witness: a tick after the first rebuilt the snapshot, so a
\* registration call had set the flag again; the snapshot holds the consumers
\* registered now, the flag is false and the mutex is free.
C37_Witness ==
  /\ ~windowApis_dirty_ /\ windowApis_mutex_ = "free"
  /\ tick.n >= 2 /\ tick.rebuilds = 1
  /\ windowApis_ # {}
  /\ windowApis_cache_ = InOrder(windowApis_)

\* C38: the first tick processed for an animation that was started with
\* duration 0 completes it, at whatever time it arrives: it applies exactly
\* the target value, invokes the completion callback once, removes the
\* record and kills its timer.  The record was never advanced before, and
\* the progress the callback sees is 1.0: no progress is computed as
\* elapsed / 0.
C38_Tick ==
  \A id \in CallerIds :
    (/\ DoOnTimer(id)
     /\ ~crashed'
     /\ id \in DOMAIN active_animations_
     /\ active_animations_[id].duration = 0)
    => /\ active_animations_[id].is_active
       /\ active_animations_[id].progress[2] # 0
       /\ fired[id] = 0
       /\ last_call' = C5_TargetCall(active_animations_[id])
       /\ fired'[id] = 1
       /\ cb_view'.id = id /\ cb_view'.progress = <<1, 1>>
       /\ id \notin DOMAIN active_animations_'
       /\ id \notin timers'

C38_ZeroDurationCompletesAtOnce == [][C38_Tick]_vars

\* C38 witness: a Size animation of duration 0 was ticked at the very time
\* it was started; the window has the target size, the callback ran once and
\* the registry no longer holds the record.
C38_Witness ==
  /\ last_op = [op |-> "OnTimer", ret |-> 1]
  /\ now = 0
  /\ \E id \in DOMAIN fired :
       /\ fired[id] = 1
       /\ cb_view.id = id /\ cb_view.progress = <<1, 1>>
       /\ id \notin DOMAIN active_animations_
  /\ last_call.fn = "SetWindowPos" /\ last_call.flags = {"SWP_NOMOVE"}
====
